---------------------------- MODULE Spec2Model ----------------------------
(***************************************************************************)
(* Prompt validation engine (app/services/bert_validation.py) and backend  *)
(* gateway (app/services/backend_service.py) of the interior design        *)
(* generator, as state machines whose actions are the public operations.   *)
(*                                                                         *)
(* Numbers.  Logits are integers in quarter units (1 = 0.25); a softmax    *)
(* weight is exp(logit - largest logit) as a multiple of 1/30000000; a     *)
(* probability is kept as the pair (weight, total weight) and compared by  *)
(* cross multiplication;                                                   *)
(* round(p, 3) is an integer number of thousandths.  Scores that come from *)
(* a remote JSON body are integers in thousandths too (700 = 0.7).         *)
(***************************************************************************)
EXTENDS Integers, Sequences, FiniteSets, TLC

(***************************************************************************)
(* Python values                                                           *)
(***************************************************************************)
\* Python's None, where the other values of the slot are strings
None == "<None>"

\* a value that is no str (an int, a list) in a slot whose other values are strings
NonString == "<42>"

\* isinstance(x, str)
IsStr(x) == x # None /\ x # NonString

\* truthiness of a str-or-None slot: `if x`, `not x`
Truthy(x) == x # None /\ x # ""

(***************************************************************************)
(* str methods, character by character                                     *)
(***************************************************************************)
UpperChars == << "A", "B", "C", "D", "E", "F", "G", "H", "I", "J", "K", "L", "M",
                 "N", "O", "P", "Q", "R", "S", "T", "U", "V", "W", "X", "Y", "Z" >>

LowerChars == << "a", "b", "c", "d", "e", "f", "g", "h", "i", "j", "k", "l", "m",
                 "n", "o", "p", "q", "r", "s", "t", "u", "v", "w", "x", "y", "z" >>

DigitChars == << "0", "1", "2", "3", "4", "5", "6", "7", "8", "9" >>

Range(f) == { f[i] : i \in DOMAIN f }

CharAt(s, i) == SubSeq(s, i, i)

IndexIn(c, chars) == CHOOSE i \in DOMAIN chars : chars[i] = c

LowerChar(c) == IF c \in Range(UpperChars) THEN LowerChars[IndexIn(c, UpperChars)] ELSE c

UpperChar(c) == IF c \in Range(LowerChars) THEN UpperChars[IndexIn(c, LowerChars)] ELSE c

IsCased(c) == c \in Range(UpperChars) \cup Range(LowerChars)

\* a regex word character, \w
IsWordChar(c) == IsCased(c) \/ c \in Range(DigitChars) \/ c = "_"

\* str.lower()
RECURSIVE Lower(_)
Lower(s) == IF s = "" THEN "" ELSE LowerChar(CharAt(s, 1)) \o Lower(SubSeq(s, 2, Len(s)))

\* str.title(): a cased character is upper-cased after an uncased one (or at the
\* start) and lower-cased after a cased one
RECURSIVE TitleFrom(_, _)
TitleFrom(s, prevCased) ==
  IF s = "" THEN ""
  ELSE LET c == CharAt(s, 1)
       IN  (IF prevCased THEN LowerChar(c) ELSE UpperChar(c))
             \o TitleFrom(SubSeq(s, 2, Len(s)), IsCased(c))

Title(s) == TitleFrom(s, FALSE)

\* str.replace(old, new) for a one-character old
RECURSIVE Replace(_, _, _)
Replace(s, old, new) ==
  IF s = "" THEN ""
  ELSE (IF CharAt(s, 1) = old THEN new ELSE CharAt(s, 1))
         \o Replace(SubSeq(s, 2, Len(s)), old, new)

\* `k in s` for strings
Contains(k, s) ==
  \E i \in 1..(Len(s) - Len(k) + 1) : SubSeq(s, i, i + Len(k) - 1) = k

\* str.strip() (the prompts of the model hold no whitespace but the space)
RECURSIVE LStrip(_)
LStrip(s) == IF s # "" /\ CharAt(s, 1) = " " THEN LStrip(SubSeq(s, 2, Len(s))) ELSE s

RECURSIVE RStrip(_)
RStrip(s) ==
  IF s # "" /\ CharAt(s, Len(s)) = " " THEN RStrip(SubSeq(s, 1, Len(s) - 1)) ELSE s

Strip(s) == RStrip(LStrip(s))

\* ' '.join(s.split()) of a stripped string: every run of spaces becomes one space
RECURSIVE JoinSplit(_)
JoinSplit(s) ==
  IF Len(s) < 2 THEN s
  ELSE IF CharAt(s, 1) = " " /\ CharAt(s, 2) = " " THEN JoinSplit(SubSeq(s, 2, Len(s)))
  ELSE CharAt(s, 1) \o JoinSplit(SubSeq(s, 2, Len(s)))

(***************************************************************************)
(* Style Knowledge Base: label_map and STYLE_HINTS, as in the source       *)
(* ('bergère chair' is written without its accent)                         *)
(***************************************************************************)
label_map ==
  0 :> "coastal" @@ 1 :> "industrial" @@ 2 :> "mid-century_modern" @@ 3 :> "modern"
    @@ 4 :> "rustic" @@ 5 :> "scandinavian" @@ 6 :> "traditional"

\* the categories of every STYLE_HINTS entry, in the order the dict lists them
Categories == << "colors", "furniture", "materials", "lighting", "features", "layout" >>

\* STYLE_HINTS['Modern'], bert_validation.py line 45
Hints_Modern ==
  [ colors |-> << "graphite gray", "beige", "chrome", "matte black", "cool taupe",
        "matte silver", "deep charcoal", "slate blue", "steel blue", "cool gray" >>,
    furniture |-> << "sleek sofa", "minimalist glass table", "contemporary armchair",
        "floating entertainment unit", "platform media unit", "slim sideboard",
        "glass console table", "modular sectional", "low-profile couch", "tempered glass table",
        "metal-framed chairs", "wall-mounted cabinet", "pivoting TV stand" >>,
    materials |-> << "carbon fiber", "metal", "high-gloss acrylic", "concrete", "smart fabric",
        "polished wood", "brushed steel", "engineered wood", "lacquered finish",
        "tempered glass", "high-gloss laminate", "smoked glass", "matte aluminum" >>,
    lighting |-> << "recessed lighting", "LED strips", "track-integrated LEDs",
        "smart panel lighting", "track lighting", "cove lighting", "minimalist chandelier",
        "spotlights", "wall-mounted LEDs", "strip lighting behind panels", "angular sconces",
        "indirect lighting" >>,
    features |-> << "frameless cabinets", "linear geometric accents", "AI-controlled systems",
        "large windows", "motion lighting", "minimal decoration", "smart home tech",
        "hidden storage", "glass partitions", "tech-integrated walls", "framed abstract art",
        "floor-to-ceiling panels", "built-in climate control", "seamless cabinetry" >>,
    layout |-> << "zoned open-plan layout", "balanced modern arrangement", "clutter-free design",
        "zoned space", "linear flow", "central focal point", "multi-use open concept",
        "asymmetrical furniture grouping", "floating layout zones", "expansive seating area" >> ]

\* STYLE_HINTS['Industrial'], bert_validation.py line 53
Hints_Industrial ==
  [ colors |-> << "charcoal", "rust", "black", "brown", "steel gray", "raw concrete" >>,
    furniture |-> << "pipe-framed seating", "metal-top coffee cart", "factory cart",
        "pipe shelving", "vintage cabinet", "industrial bench", "steel wheel table",
        "rolling stools", "drafting desk" >>,
    materials |-> << "exposed brick", "riveted iron panels", "reclaimed wood",
        "grease-stained steel", "iron", "weathered leather", "copper accents", "metal mesh",
        "galvanized pipe" >>,
    lighting |-> << "Edison bulbs", "metal pendant lights", "factory lamps",
        "exposed conduit lighting", "industrial sconces", "wire cage lighting",
        "pulley fixtures", "warehouse chandelier" >>,
    features |-> << "exposed pipes", "high ceilings", "metal fixtures", "concrete floors",
        "open shelving", "raw textures", "rolling doors", "unfinished surfaces",
        "gear decor" >>,
    layout |-> << "loft-style openness", "open floor plan", "exposed beams", "spacious interior",
        "minimalist storage", "zoned workspaces", "gallery-style walls" >> ]

\* STYLE_HINTS['Scandinavian'], bert_validation.py line 61
Hints_Scandinavian ==
  [ colors |-> << "white", "light gray", "pale blue", "mint green", "pastel shades",
        "soft beige", "clay pink" >>,
    furniture |-> << "simple sofa", "wooden armchair", "light oak table", "open wood shelving",
        "minimalist media unit", "simple storage units", "bean bag chair", "slim writing desk",
        "linen bench" >>,
    materials |-> << "light wood", "wool", "cotton", "natural fibers", "white painted surfaces",
        "felt", "bamboo", "linen blends", "oak veneer" >>,
    lighting |-> << "natural light", "simple hanging lights", "modern sconces",
        "minimal floor lamps", "white ceiling lights", "skylights", "clean-lined table lamps",
        "LED bulbs", "paper lanterns" >>,
    features |-> << "minimal decor", "plants", "natural textures", "functional design",
        "light wood floors", "modular furniture", "sculptural art pieces", "handwoven baskets",
        "wall pegs", "textile accents" >>,
    layout |-> << "airy modular layout", "clean lines and symmetry", "focus on functionality",
        "relaxing furniture arrangement", "adjustable layouts", "multi-purpose spaces",
        "natural light maximization" >> ]

\* STYLE_HINTS['Rustic'], bert_validation.py line 69
Hints_Rustic ==
  [ colors |-> << "warm brown", "pine green", "deep red", "eggshell", "raw timber",
        "burnt orange", "amber", "moss green", "bark gray" >>,
    furniture |-> << "leather sofa", "log slab table", "rocking chair", "barn wood shelves",
        "vintage trunk", "antique armchairs", "aged timber bench", "pine dining table",
        "handcrafted stools" >>,
    materials |-> << "aged timber", "stone", "natural linen", "wrought iron", "natural textiles",
        "ceramic", "burlap", "rough cotton" >>,
    lighting |-> << "wrought iron chandelier", "lantern style lights", "wooden beam lighting",
        "iron wall sconces", "candlelight", "antique lamps", "mason jar lamps" >>,
    features |-> << "exposed beams", "stone fireplace", "wooden floors", "vintage decor",
        "raw nature accents", "woven baskets", "tree branch sculptures", "log mantels",
        "hand-hewn finishes" >>,
    layout |-> << "central fireplace focus", "country-style furniture",
        "relaxed seating arrangement", "emphasis on natural warmth", "open kitchen area",
        "family-friendly design", "rug-centered layout" >> ]

\* STYLE_HINTS['Traditional'], bert_validation.py line 77
Hints_Traditional ==
  [ colors |-> << "burgundy", "navy", "forest green", "cream", "gold", "taupe", "mahogany",
        "warm beige", "dark wood tones", "rich brown", "royal blue", "antique white", "bronze",
        "sage green", "chocolate brown" >>,
    furniture |-> << "rolled arm sofa", "ornate wood table", "wingback chairs",
        "mahogany sideboard", "formal dining chairs", "cabriole legs", "tufted ottoman",
        "claw-foot table", "Queen Anne chairs", "carved wood console", "chesterfield sofa",
        "bergere chair", "secretary desk", "china cabinet", "upholstered bench" >>,
    materials |-> << "dark woods", "silk", "damask fabrics", "cherry wood", "velvet", "marble",
        "embossed leather", "brocade", "walnut wood", "embroidered fabrics", "taffeta",
        "oriental rugs", "brass hardware", "crystal accents", "polished bronze" >>,
    lighting |-> << "crystal chandeliers", "wall sconces", "table lamps with shades",
        "brass fixtures", "ornate ceiling fixtures", "candelabra lights", "tiffany lamps",
        "pleated shade lamps", "gilded floor lamps", "library reading lamps" >>,
    features |-> << "crown molding", "arched doorways", "wainscoting", "drapery panels",
        "fireplace mantels", "antique accents", "ceiling medallions", "built-in bookcases",
        "decorative pillars", "tray ceilings", "picture frame molding", "oriental carpets",
        "oil paintings", "gilt mirrors", "carved woodwork" >>,
    layout |-> << "symmetrical layout", "formal arrangement",
        "central fireplace or artwork focus", "defined conversation zones",
        "grand entrance focus", "balanced furniture pairs", "formal dining setup",
        "classical proportions" >> ]

\* STYLE_HINTS['Mid-Century Modern'], bert_validation.py line 85
Hints_MidCenturyModern ==
  [ colors |-> << "mustard", "olive green", "burnt orange", "aqua", "walnut brown", "off-white",
        "teal blue", "harvest gold", "avocado green", "tangerine", "mocha brown",
        "seafoam green", "dusty rose", "earthy terracotta", "sage green", "warm gray",
        "deep turquoise", "muted coral" >>,
    furniture |-> << "Eames lounge chair", "tapered leg sofa", "organic teak table", "credenza",
        "arc floor lamp", "tulip chair", "egg chair", "butterfly chair", "danish sideboard",
        "sculptural dining table", "molded plastic chairs", "floating cabinet", "platform bench",
        "womb chair", "bar cart", "shell chairs" >>,
    materials |-> << "walnut veneer", "teak", "tanned leather", "brass", "fiberglass", "glass",
        "rosewood", "bent plywood", "molded plastic", "chrome", "patterned vinyl",
        "brushed steel", "oak veneer", "aluminum", "textured upholstery", "stainless steel",
        "cork" >>,
    lighting |-> << "tripod lamps", "sputnik chandeliers", "globe pendants", "mod floor lamps",
        "atomic sconces", "starburst fixtures", "mushroom lamps", "geometric pendants",
        "bubble lamps", "cone wall sconces", "space-age lighting", "sculptural desk lamps",
        "brass accent lights" >>,
    features |-> << "sunken rooms", "wall paneling", "modular storage", "built-ins",
        "abstract art", "geometric patterns", "floating fireplaces", "conversation pits",
        "room dividers", "wood slat walls", "terrazzo floors", "graphic wallpaper",
        "atomic motifs", "indoor planters", "statement clocks", "period artwork" >>,
    layout |-> << "low-profile open design", "accent-walled zones",
        "natural light centered design", "split-level layout", "indoor-outdoor flow",
        "angular divisions", "conversation areas", "minimal space planning", "layered lighting",
        "floating room dividers" >> ]

\* STYLE_HINTS['Coastal'], bert_validation.py line 93
Hints_Coastal ==
  [ colors |-> << "ocean blue", "sandy beige", "seafoam green", "pearl white", "coral pink",
        "light gray", "turquoise", "navy blue", "driftwood gray", "shell pink", "aqua",
        "sea glass green", "warm sand", "pale yellow", "coastal fog", "azure blue",
        "beach grass green" >>,
    furniture |-> << "slipcovered sofa", "wicker armchair", "nautical center table",
        "rattan seating", "bamboo console", "adirondack chair", "rope accent chair",
        "weathered bench", "seagrass ottoman", "white media cabinet", "woven side tables",
        "driftwood furniture", "coastal storage unit", "beach house sectional", "wicker trunk",
        "bamboo screen" >>,
    materials |-> << "wicker", "rattan", "seagrass", "whitewashed wood", "jute", "linen canvas",
        "cotton canvas", "weathered wood", "rope", "woven bamboo", "sisal", "distressed wood",
        "natural fiber", "painted wood", "bleached wood", "grasscloth", "sea glass" >>,
    lighting |-> << "rope pendant lights", "coastal chandeliers", "woven basket lights",
        "glass bottle lamps", "driftwood sconces", "nautical wall lights",
        "capiz shell fixtures", "lantern lights", "rattan pendants", "seagrass shade lamps",
        "fisherman lights", "shell fixtures", "beach glass pendants" >>,
    features |-> << "shiplap walls", "weathered beams", "coastal artwork", "shell collections",
        "nautical accessories", "beach-themed decor", "ocean view windows", "rope accents",
        "natural fiber rugs", "striped textiles", "driftwood accents", "coral displays",
        "coastal weave baskets", "seaside photographs", "maritime antiques" >>,
    layout |-> << "breezy open-concept", "indoor-outdoor flow", "panoramic windows",
        "casual seating groups", "light-filled rooms", "relaxed furniture placement",
        "outdoor living connection", "beachfront orientation", "informal gathering spaces",
        "wraparound seating" >> ]

STYLE_HINTS ==
  "Modern" :> Hints_Modern @@ "Industrial" :> Hints_Industrial
    @@ "Scandinavian" :> Hints_Scandinavian @@ "Rustic" :> Hints_Rustic
    @@ "Traditional" :> Hints_Traditional @@ "Mid-Century Modern" :> Hints_MidCenturyModern
    @@ "Coastal" :> Hints_Coastal

\* list(set(keywords)): the order in which a set of str is listed depends on the hash
\* seed of the process. The orders of the model: order 0 lists the set one way, order
\* n > 0 lists it the other way round, begun n - 1 places further on
MaxKeywordOrder == 1

KeywordOrders == 0..MaxKeywordOrder

RECURSIVE SetToSeq(_)
SetToSeq(S) ==
  IF S = {} THEN << >>
  ELSE LET x == CHOOSE x \in S : TRUE IN << x >> \o SetToSeq(S \ {x})

Reversed(s) == [ i \in 1..Len(s) |-> s[Len(s) + 1 - i] ]

Rotated(s, n) == [ i \in 1..Len(s) |-> s[((i - 1 + n) % Len(s)) + 1] ]

ListOfSet(S, order) ==
  IF order = 0 THEN SetToSeq(S) ELSE Rotated(Reversed(SetToSeq(S)), order - 1)

\* extract_keywords_from_styles: lower-cased style name -> list of its keywords,
\* duplicates removed
extract_keywords_from_styles(style_hints, order) ==
  [ key \in { Lower(style) : style \in DOMAIN style_hints } |->
      ListOfSet(UNION { Range(style_hints[style][category]) :
                         <<style, category>> \in
                           { t \in DOMAIN style_hints : Lower(t) = key } \X Range(Categories) },
                order) ]

\* STYLE_KEYWORDS as the process computes it at import, for each order
STYLE_KEYWORDS ==
  [ order \in KeywordOrders |-> extract_keywords_from_styles(STYLE_HINTS, order) ]

\* dict.get(key, []) on STYLE_KEYWORDS
KeywordsOf(style_lower, order) ==
  IF style_lower \in DOMAIN STYLE_KEYWORDS[order] THEN STYLE_KEYWORDS[order][style_lower]
  ELSE << >>

(***************************************************************************)
(* Domain gate                                                             *)
(***************************************************************************)
\* living_room_terms: r'\b<first>\s*<second>\b', or r'\b<first>\b' (second = "")
living_room_terms ==
  << <<"living", "room">>, <<"sitting", "room">>, <<"lounge", "">>, <<"family", "room">>,
     <<"living", "area">>, <<"sitting", "area">>, <<"common", "area">>, <<"front", "room">>,
     <<"parlor", "">>, <<"den", "">>, <<"great", "room">>, <<"reception", "room">> >>

\* \b between the characters i-1 and i of s
BoundaryAt(s, i) ==
  (i > 1 /\ IsWordChar(CharAt(s, i - 1))) # (i <= Len(s) /\ IsWordChar(CharAt(s, i)))

StartsAt(s, i, w) == i + Len(w) - 1 <= Len(s) /\ SubSeq(s, i, i + Len(w) - 1) = w

\* the end of the run of spaces that starts at j: what \s* consumes
RECURSIVE SkipSpaces(_, _)
SkipSpaces(s, j) == IF j <= Len(s) /\ CharAt(s, j) = " " THEN SkipSpaces(s, j + 1) ELSE j

\* re.search(term, s)
TermFound(term, s) ==
  \E i \in 1..Len(s) :
    /\ BoundaryAt(s, i)
    /\ StartsAt(s, i, term[1])
    /\ LET j == IF term[2] = "" THEN i + Len(term[1])
                ELSE SkipSpaces(s, i + Len(term[1]))
       IN  StartsAt(s, j, term[2]) /\ BoundaryAt(s, j + Len(term[2]))

is_living_room_related(prompt) ==
  LET prompt_lower == Lower(prompt)
  IN  \E n \in DOMAIN living_room_terms : TermFound(living_room_terms[n], prompt_lower)

\* sanitize_prompt: "" for a falsy prompt and for one that is no str (line 127)
sanitize_prompt(prompt) ==
  IF ~Truthy(prompt) \/ ~IsStr(prompt) THEN "" ELSE JoinSplit(Strip(prompt))

(***************************************************************************)
(* Style classifier output and softmax                                     *)
(***************************************************************************)
\* largest raw logit the classifier of the model returns, in quarter units
MaxLogit == 1

\* the raw logit of the label a confident classifier picks, in quarter units
PeakLogit == 12

\* KEYWORD_BOOST = 0.5, LABEL_EXPLICIT_BOOST = 2.0 and the rustic penalty 1.0,
\* in quarter units
KEYWORD_BOOST == 2

LABEL_EXPLICIT_BOOST == 8

RUSTIC_PENALTY == 4

\* round(30000000 * exp(q / 4)) for q = -32 .. 0: seven weights add up to less
\* than 2^31 / 10, which the long division of Round3 needs
ExpTable ==
  << 10064, 12922, 16593, 21305, 27356, 35126,
     45103, 57914, 74363, 95483, 122603, 157426,
     202138, 259551, 333270, 427927, 549469, 705532,
     905922, 1163226, 1493612, 1917836, 2462550, 3161977,
     4060058, 5213218, 6693905, 8595144, 11036383, 14170997,
     18195920, 23364023, 30000000 >>

Exp(q) == IF q < 1 - Len(ExpTable) THEN 0 ELSE ExpTable[q + Len(ExpTable)]

RECURSIVE SumOver(_, _)
SumOver(f, S) ==
  IF S = {} THEN 0 ELSE LET x == CHOOSE y \in S : TRUE IN f[x] + SumOver(f, S \ {x})

\* max(row)
MaxOf(f) == CHOOSE m \in Range(f) : \A x \in Range(f) : x <= m

\* torch.nn.functional.softmax(logits, dim=1)[0]: probs[i] = w[i] / total, with
\* w[i] = exp(logits[i] - max) as softmax computes it
softmax(logits) ==
  LET w == [ i \in DOMAIN logits |-> Exp(logits[i] - MaxOf(logits)) ]
  IN  [ w |-> w, total |-> SumOver(w, DOMAIN w) ]

\* round(probs[i], 3), in thousandths: three digits of the quotient w[i] / total by
\* long division, rounded up when the remainder is at least half of total
Round3(probs, i) ==
  LET t  == probs.total
      a1 == 10 * probs.w[i]
      a2 == 10 * (a1 % t)
      a3 == 10 * (a2 % t)
  IN  100 * (a1 \div t) + 10 * (a2 \div t) + (a3 \div t)
        + (IF 2 * (a3 % t) >= t THEN 1 ELSE 0)

\* probs[a] - probs[b] < 0.1
GapBelowMargin(probs, a, b) == 10 * (probs.w[a] - probs.w[b]) < probs.total

(***************************************************************************)
(* Heuristic re-ranking                                                    *)
(***************************************************************************)
\* [k for k in keywords if k.lower() in lower_prompt]
ListedAt(keywords, places) ==
  [ n \in 1..Cardinality(places) |->
      keywords[CHOOSE i \in places : Cardinality({ j \in places : j < i }) = n - 1] ]

KeywordsIn(keywords, lower_prompt) ==
  ListedAt(keywords, { i \in DOMAIN keywords : Contains(Lower(keywords[i]), lower_prompt) })

\* the boost loop as it would be if only the keyword listed first were looked for
match_keywords_FirstListedOnly(label, lower_prompt, order) ==
  KeywordsIn(SubSeq(KeywordsOf(Lower(label), order), 1,
                    IF KeywordsOf(Lower(label), order) = << >> THEN 0 ELSE 1),
             lower_prompt)

\* match_keywords of the boost loop, for one label
match_keywords(label, lower_prompt, order) ==
  KeywordsIn(KeywordsOf(Lower(label), order), lower_prompt)

\* label.replace("_", " ") in lower_prompt
ExplicitMention(label, lower_prompt) == Contains(Replace(label, "_", " "), lower_prompt)

\* the condition of the rustic penalty
RusticUnindicated(lower_prompt, order) ==
  /\ ~Contains("rustic", lower_prompt)
  /\ ~\E n \in DOMAIN STYLE_KEYWORDS[order]["rustic"] :
        Contains(STYLE_KEYWORDS[order]["rustic"][n], lower_prompt)

ALLOWED_STYLES ==
  { "modern", "scandinavian", "industrial", "coastal", "mid-century", "rustic", "traditional" }

\* allowed_indices, ascending as label_map lists them
RECURSIVE AllowedFrom(_)
AllowedFrom(idx) ==
  IF idx \notin DOMAIN label_map THEN << >>
  ELSE (IF label_map[idx] \in ALLOWED_STYLES THEN << idx >> ELSE << >>) \o AllowedFrom(idx + 1)

allowed_indices == AllowedFrom(0)

\* list.sort(key=prob, reverse=True): stable, so equal probabilities keep their order
RECURSIVE InsertDesc(_, _, _)
InsertDesc(sorted, idx, probs) ==
  IF sorted = << >> THEN << idx >>
  ELSE IF probs.w[Head(sorted)] >= probs.w[idx]
       THEN << Head(sorted) >> \o InsertDesc(Tail(sorted), idx, probs)
       ELSE << idx >> \o sorted

RECURSIVE SortDesc(_, _)
SortDesc(indices, probs) ==
  IF indices = << >> THEN << >>
  ELSE InsertDesc(SortDesc(SubSeq(indices, 1, Len(indices) - 1), probs),
                  indices[Len(indices)], probs)

\* the ranking as it would be over every label of label_map, the allow-list left out
filtered_EveryLabel(probs) == SortDesc(<< 0, 1, 2, 3, 4, 5, 6 >>, probs)

\* filtered, sorted: lines 212-213
filtered(probs) == SortDesc(allowed_indices, probs)

(***************************************************************************)
(* Explanation synthesis                                                   *)
(***************************************************************************)
\* the first keyword of the list found in the prompt, 0 when there is none
RECURSIVE FirstMatch(_, _, _)
FirstMatch(keywords, n, lower_prompt) ==
  IF n > Len(keywords) THEN 0
  ELSE IF Contains(Lower(keywords[n]), lower_prompt) THEN n
  ELSE FirstMatch(keywords, n + 1, lower_prompt)

\* every keyword of the list found in the prompt, from the n-th on
RECURSIVE AllMatches(_, _, _)
AllMatches(keywords, n, lower_prompt) ==
  IF n > Len(keywords) THEN << >>
  ELSE (IF Contains(Lower(keywords[n]), lower_prompt) THEN << keywords[n] >> ELSE << >>)
         \o AllMatches(keywords, n + 1, lower_prompt)

\* the loop as it would be without the break of line 253: a reason for every keyword
RECURSIVE CategoryReasons_WithoutBreak(_, _, _)
CategoryReasons_WithoutBreak(hints, c, lower_prompt) ==
  IF c > Len(Categories) THEN << >>
  ELSE [ n \in 1..Len(AllMatches(hints[Categories[c]], 1, lower_prompt)) |->
           "mentions of " \o Categories[c] \o " like '"
             \o AllMatches(hints[Categories[c]], 1, lower_prompt)[n] \o "'" ]
         \o CategoryReasons_WithoutBreak(hints, c + 1, lower_prompt)

\* the loop over STYLE_HINTS[style_title_case].items(): one reason for each category
\* that has a keyword in the prompt; the break leaves the category at its first match
RECURSIVE CategoryReasons(_, _, _)
CategoryReasons(hints, c, lower_prompt) ==
  IF c > Len(Categories) THEN << >>
  ELSE LET category == Categories[c]
           n == FirstMatch(hints[category], 1, lower_prompt)
       IN  (IF n = 0 THEN << >>
            ELSE << "mentions of " \o category \o " like '" \o hints[category][n] \o "'" >>)
             \o CategoryReasons(hints, c + 1, lower_prompt)

\* explanation, and whether matched_categories was assigned before line 258 reads it
Explain(style_name, lower_prompt) ==
  LET style_title_case == Title(style_name)
  IN  IF style_title_case \in DOMAIN STYLE_HINTS
      THEN LET reasons == CategoryReasons(STYLE_HINTS[style_title_case], 1, lower_prompt)
           IN  [ explanation |->
                   IF reasons = << >>
                   THEN << "based on overall language and style structure" >>
                   ELSE reasons,
                 matched_categories_bound |-> TRUE ]
      ELSE [ explanation |-> << "style not found in hint database" >>,
             matched_categories_bound |-> FALSE ]

(***************************************************************************)
(* Inputs of the validation engine                                         *)
(***************************************************************************)
\* the prompts callers pass (None: no prompt at all)
Prompts ==
  { None, NonString, "", "   ",
    "a cozy bedroom with plants",
    "garden shed",
    "living room",
    "A Modern  living room with leather sofa and brass lamp",
    "coastal living room",
    "modern coastal lounge",
    "modern industrial coastal lounge with hidden storage, exposed brick and shiplap walls",
    "mid-century modern living room",
    "mid century modern living room",
    "rustic den with stone fireplace",
    "scandinavian sitting room with wool and cotton and plants",
    "industrial family room with exposed beams",
    "Eames lounge chair in a great room" }

\* what the tokenizer and the model do with a prompt: raise, or return raw logits
ClassifierOutcomes ==
  { [ raises |-> FALSE, logits |-> v, error |-> "" ] :
      v \in [ DOMAIN label_map -> 0..MaxLogit ]
             \cup { [ i \in DOMAIN label_map |-> IF i = k THEN PeakLogit ELSE 0 ] :
                     k \in DOMAIN label_map } }
    \cup { [ raises |-> TRUE, logits |-> [ i \in DOMAIN label_map |-> 0 ], error |-> e ] :
             e \in { "CUDA out of memory", "" } }

\* everything validate_prompt_locally reads off the prompt text alone
PromptScan(prompt_in, order) ==
  LET prompt == sanitize_prompt(prompt_in)
      lower_prompt == Lower(prompt)
  IN  [ prompt |-> prompt,
        lower_prompt |-> lower_prompt,
        related |-> is_living_room_related(prompt),
        keyword |-> [ i \in DOMAIN label_map |->
                        match_keywords(label_map[i], lower_prompt, order) # << >> ],
        explicit |-> [ i \in DOMAIN label_map |->
                         ExplicitMention(label_map[i], lower_prompt) ],
        rustic_unindicated |-> RusticUnindicated(lower_prompt, order),
        explain |-> [ i \in DOMAIN label_map |-> Explain(label_map[i], lower_prompt) ] ]

\* the scans of the model's prompts, evaluated once
ScanTable == { << p, order, PromptScan(p, order) >> : p \in Prompts, order \in KeywordOrders }

Scan(prompt_in, order) ==
  IF prompt_in \in Prompts
  THEN (CHOOSE t \in ScanTable : t[1] = prompt_in /\ t[2] = order)[3]
  ELSE PromptScan(prompt_in, order)

(***************************************************************************)
(* validate_prompt_locally                                                 *)
(***************************************************************************)
RejectedResult(message) ==
  [ valid |-> FALSE, prompt_score |-> 0, detected_style |-> "unknown",
    style_confidence |-> 0, intent |-> "invalid", style_reasons |-> << >>,
    message |-> message ]

\* the boost loop and the rustic penalty, lines 168-190
AdjustLogits(logits, scan) ==
  [ i \in DOMAIN label_map |->
      logits[i]
        + (IF scan.keyword[i] THEN KEYWORD_BOOST ELSE 0)
        + (IF scan.explicit[i] THEN LABEL_EXPLICIT_BOOST ELSE 0)
        - (IF label_map[i] = "rustic" /\ scan.rustic_unindicated THEN RUSTIC_PENALTY ELSE 0) ]

\* explicit_mentioned_idx: the first label of label_map named in the prompt, or -1
ExplicitMentionedIdx(scan) ==
  IF \E i \in DOMAIN label_map : scan.explicit[i]
  THEN CHOOSE i \in DOMAIN label_map :
         scan.explicit[i] /\ \A j \in DOMAIN label_map : scan.explicit[j] => i <= j
  ELSE -1

\* lines 199-229: softmax, allow-list, ranking and the explicit-mention override
Rerank(raw_logits, scan) ==
  LET probs == softmax(AdjustLogits(raw_logits, scan))
      ranked == filtered(probs)
      explicit_mentioned_idx == ExplicitMentionedIdx(scan)
      override == /\ explicit_mentioned_idx # -1
                  /\ explicit_mentioned_idx # ranked[1]
                  /\ GapBelowMargin(probs, ranked[1], explicit_mentioned_idx)
      top1_idx == IF override THEN explicit_mentioned_idx ELSE ranked[1]
  IN  [ probs |-> probs, ranked |-> ranked, overridden |-> override,
        top1_idx |-> top1_idx, top1_conf |-> Round3(probs, top1_idx),
        top2_idx |-> ranked[2], top2_conf |-> Round3(probs, ranked[2]) ]

\* lines 232-282: the explanation read off for the winning label and the result; the
\* read of matched_categories at line 258 raises when the label has no hints, and
\* the except clause of line 272 turns that into a rejection
Answer(r, scan) ==
  IF ~scan.explain[r.top1_idx].matched_categories_bound
  THEN [ result |-> RejectedResult(
           "Validation error: cannot access local variable 'matched_categories' where it is not associated with a value"),
         model_calls |-> 1 ]
  ELSE [ result |->
           [ valid |-> TRUE,
             prompt_score |-> r.top1_conf,
             detected_style |-> label_map[r.top1_idx],
             style_confidence |-> r.top1_conf,
             secondary_style |-> label_map[r.top2_idx],
             secondary_confidence |-> r.top2_conf,
             intent |-> "generate",
             style_reasons |-> scan.explain[r.top1_idx].explanation,
             message |-> "Prompt validation completed" ],
         model_calls |-> 1 ]

\* lines 160-282: the try block, entered by a prompt that passed the gate
Classify(scan, cls) ==
  IF cls.raises
  THEN [ result |-> RejectedResult("Validation error: " \o cls.error), model_calls |-> 1 ]
  ELSE Answer(Rerank(cls.logits, scan), scan)

\* the gate as it would be without the domain check of line 148
Gate_WithoutDomainCheck(scan, cls) ==
  IF scan.prompt = ""
  THEN [ result |-> RejectedResult("Prompt is empty."), model_calls |-> 0 ]
  ELSE Classify(scan, cls)

\* the gate as it would be with the domain check ahead of the test for emptiness
Gate_DomainCheckFirst(scan, cls) ==
  IF ~scan.related
  THEN [ result |-> RejectedResult("Prompt must be related to living room design."),
         model_calls |-> 0 ]
  ELSE IF scan.prompt = ""
  THEN [ result |-> RejectedResult("Prompt is empty."), model_calls |-> 0 ]
  ELSE Classify(scan, cls)

\* lines 137-158: the empty prompt and the prompt outside the domain are rejected
\* before the tokenizer and the model are touched
Gate(scan, cls) ==
  IF scan.prompt = ""
  THEN [ result |-> RejectedResult("Prompt is empty."), model_calls |-> 0 ]
  ELSE IF ~scan.related
  THEN [ result |-> RejectedResult("Prompt must be related to living room design."),
         model_calls |-> 0 ]
  ELSE Classify(scan, cls)

\* validate_prompt_locally(prompt): the result and the number of classifier
\* invocations of one call; cls is what the tokenizer and the model do when asked,
\* order the order of the process's STYLE_KEYWORDS lists
validate_prompt_locally(prompt_in, cls, order) == Gate(Scan(prompt_in, order), cls)
(***************************************************************************)
(* Backend gateway: values                                                 *)
(***************************************************************************)
\* a decoded JSON value: an object with its fields, a list, or null (Python's None)
JObject(fields) == [ json |-> "object", fields |-> fields ]

JList == [ json |-> "list", fields |-> << >> ]

JNull == [ json |-> "null", fields |-> << >> ]

\* truthiness of a decoded value: None, {} and [] are falsy (the lists of the model
\* are empty)
JTruthy(v) == v.json = "object" /\ DOMAIN v.fields # {}

\* `key in v`
JHas(v, key) == v.json = "object" /\ key \in DOMAIN v.fields

\* dict.get(key, default)
JGet(v, key, default) == IF key \in DOMAIN v.fields THEN v.fields[key] ELSE default

\* an answer to one HTTP request: a response with a status and a body (decoded when
\* decodable is TRUE), a requests Timeout, or another exception with its text
Response(status, decodable, body) ==
  [ kind |-> "response", status |-> status, decodable |-> decodable, body |-> body ]

TimeoutAnswer ==
  [ kind |-> "timeout", status |-> "", decodable |-> FALSE, body |-> JNull ]

ExceptionAnswer(text) ==
  [ kind |-> "exception", status |-> text, decodable |-> FALSE, body |-> JNull ]

\* str.rstrip("/")
RECURSIVE RStripSlash(_)
RStripSlash(s) ==
  IF s # "" /\ CharAt(s, Len(s)) = "/" THEN RStripSlash(SubSeq(s, 1, Len(s) - 1)) ELSE s

(***************************************************************************)
(* Backend gateway: BackendService                                         *)
(*                                                                         *)
(* An operation takes the world w it runs in and returns the world it      *)
(* leaves: the gateway's fields base_url and use_local_validation, the     *)
(* answers the network gives to its GET and POST requests in order (an     *)
(* answer list that runs out repeats its last answer), the requests sent   *)
(* and the sleeps taken so far.                                            *)
(***************************************************************************)
AnswerAt(answers, n) == answers[IF n <= Len(answers) THEN n ELSE Len(answers)]

\* requests.get(url, ...)
HttpGet(w, url) ==
  LET n == Cardinality({ i \in DOMAIN w.sent : w.sent[i].method = "GET" }) + 1
  IN  [ w |-> [ w EXCEPT !.sent = Append(@, [ method |-> "GET", url |-> url,
                                               payload |-> << >> ]) ],
        answer |-> AnswerAt(w.gets, n) ]

\* requests.post(url, json=payload, ...)
HttpPost(w, url, payload) ==
  LET n == Cardinality({ i \in DOMAIN w.sent : w.sent[i].method = "POST" }) + 1
  IN  [ w |-> [ w EXCEPT !.sent = Append(@, [ method |-> "POST", url |-> url,
                                               payload |-> payload ]) ],
        answer |-> AnswerAt(w.posts, n) ]

\* time.sleep(seconds)
Sleep(w, seconds) == [ w EXCEPT !.sleeps = Append(@, seconds) ]

RECURSIVE init_app(_, _)
RECURSIVE _ensure_base_url(_, _)

\* _test_connection, lines 61-67: the root URL is tried when /health did not give 200
RootProbe(root) ==
  [ w |-> root.w, value |-> root.answer.kind = "response" /\ root.answer.status = "200" ]

\* the probe as it would be if the except clause of line 69 returned True
HealthProbe_ErrorCountsAsUp(base, health) ==
  IF health.answer.kind # "response" THEN [ w |-> health.w, value |-> TRUE ]
  ELSE IF health.answer.status = "200" THEN [ w |-> health.w, value |-> TRUE ]
  ELSE RootProbe(HttpGet(health.w, base))

\* _test_connection, lines 57-71: the answer of GET /health is in; an exception of
\* either request is caught and gives False
HealthProbe(base, health) ==
  IF health.answer.kind # "response" THEN [ w |-> health.w, value |-> FALSE ]
  ELSE IF health.answer.status = "200" THEN [ w |-> health.w, value |-> TRUE ]
  ELSE RootProbe(HttpGet(health.w, base))

\* _test_connection, lines 51-71: the base URL has been looked up
ProbeFrom(w) ==
  IF ~Truthy(w.base_url) THEN [ w |-> w, value |-> FALSE ]
  ELSE HealthProbe(w.base_url, HttpGet(w, w.base_url \o "/health"))

\* _test_connection: the world it leaves and the boolean it returns
_test_connection(w0, config) == ProbeFrom(_ensure_base_url(w0, config))

\* init_app(app): config is app.config
init_app(w, config) ==
  IF RStripSlash(config.COLAB_ENDPOINT) # ""
  THEN _test_connection([ w EXCEPT !.use_local_validation = config.USE_LOCAL_BERT,
                                   !.base_url = RStripSlash(config.COLAB_ENDPOINT) ],
                        config)
  ELSE [ w |-> [ w EXCEPT !.use_local_validation = config.USE_LOCAL_BERT,
                          !.base_url = None ],
         value |-> TRUE ]

\* _ensure_base_url (self.app is the application that built the gateway)
_ensure_base_url(w, config) ==
  IF ~Truthy(w.base_url) /\ ~w.use_local_validation THEN init_app(w, config).w ELSE w

\* the loop as it would be if a 429 were handed back like any other error status
Retried_TimeoutOnly(answer) == answer.kind = "timeout"

\* the loop as it would be if every error status were tried again
Retried_EveryErrorStatus(answer) ==
  answer.kind = "timeout" \/ (answer.kind = "response" /\ answer.status # "200")

\* the answers after which the loop goes on to the next attempt: status 429 (line
\* 105) and requests.exceptions.Timeout (line 117)
Retried(answer) ==
  answer.kind = "timeout" \/ (answer.kind = "response" /\ answer.status = "429")

\* the argument of time.sleep, lines 107 and 119
Backoff(answer, attempt, retry_delay) ==
  IF answer.kind = "timeout" THEN retry_delay ELSE retry_delay * (attempt + 1)

\* the pair returned for an answer that ends the loop: the decoded body of a 200
\* (response.json() raising is caught at line 120), the "error" member of an error
\* body or "HTTP error <status>" (lines 108-116), the text of an exception
Ended(answer) ==
  IF answer.kind = "exception" THEN [ result |-> JNull, error |-> answer.status ]
  ELSE IF answer.status = "200"
  THEN IF answer.decodable THEN [ result |-> answer.body, error |-> None ]
       ELSE [ result |-> JNull, error |-> "Expecting value: line 1 column 1 (char 0)" ]
  ELSE [ result |-> JNull,
         error |-> IF answer.decodable /\ answer.body.json = "object"
                   THEN JGet(answer.body, "error", "HTTP error " \o answer.status)
                   ELSE "HTTP error " \o answer.status ]

RECURSIVE SendAttempts(_, _, _, _, _, _)
RECURSIVE AfterPost(_, _, _, _, _, _)

\* the loop as it would be with range(max_retries + 1)
SendAttempts_OneMore(w, full_url, payload, attempt, max_retries, retry_delay) ==
  IF attempt > max_retries
  THEN [ w |-> w, result |-> JNull, error |-> "Maximum retry attempts reached" ]
  ELSE AfterPost(HttpPost(w, full_url, payload), full_url, payload,
                 attempt, max_retries, retry_delay)

\* the for loop of _send_request from attempt (0-based) on, lines 91-124
SendAttempts(w, full_url, payload, attempt, max_retries, retry_delay) ==
  IF attempt >= max_retries
  THEN [ w |-> w, result |-> JNull, error |-> "Maximum retry attempts reached" ]
  ELSE AfterPost(HttpPost(w, full_url, payload), full_url, payload,
                 attempt, max_retries, retry_delay)

\* lines 92-122: what one attempt does with the answer to its POST
AfterPost(post, full_url, payload, attempt, max_retries, retry_delay) ==
  IF Retried(post.answer)
  THEN SendAttempts(Sleep(post.w, Backoff(post.answer, attempt, retry_delay)),
                    full_url, payload, attempt + 1, max_retries, retry_delay)
  ELSE [ w |-> post.w, result |-> Ended(post.answer).result,
         error |-> Ended(post.answer).error ]

\* _send_request, lines 75-124: the base URL has been looked up
SendFrom(w, endpoint, payload, max_retries, retry_delay) ==
  IF ~Truthy(w.base_url)
  THEN [ w |-> w, result |-> JNull, error |-> "Backend URL not configured" ]
  ELSE SendAttempts(w, w.base_url \o endpoint, payload, 0, max_retries, retry_delay)

\* _send_request(endpoint, payload, max_retries, retry_delay)
_send_request(w0, config, endpoint, payload, max_retries, retry_delay) ==
  SendFrom(_ensure_base_url(w0, config), endpoint, payload, max_retries, retry_delay)
\* the defaults of _send_request's max_retries and retry_delay (seconds)
DefaultMaxRetries == 3

DefaultRetryDelay == 2

\* the defaults of generate_image's style and guidance_scale (tenths: 75 is 7.5)
DefaultStyle == "modern"

DefaultGuidanceScale == 75

\* an optional number: << >> is None, << n >> is the number n
NumTruthy(m) == m # << >> /\ m[1] # 0

\* the payload generate_image builds, lines 146-157
GeneratePayload(a) ==
  LET keys == {"prompt"}
                \cup (IF Truthy(a.style) /\ a.style # "auto" THEN {"style"} ELSE {})
                \cup (IF Truthy(a.negative_prompt) THEN {"negative_prompt"} ELSE {})
                \cup (IF NumTruthy(a.guidance_scale) THEN {"guidance_scale"} ELSE {})
                \cup (IF NumTruthy(a.num_inference_steps)
                      THEN {"num_inference_steps"} ELSE {})
                \cup (IF NumTruthy(a.seed) THEN {"seed"} ELSE {})
  IN  [ k \in keys |->
        IF k \in {"guidance_scale", "num_inference_steps", "seed"} THEN a[k][1] ELSE a[k] ]

\* what a gateway call leaves: the world, the (result, error) pair it returned, or
\* the exception that escaped it
Returned(w, result, error) ==
  [ w |-> w, result |-> result, error |-> error, exc |-> None, model_calls |-> 0 ]

Raised(w, exception) ==
  [ w |-> w, result |-> JNull, error |-> None, exc |-> exception, model_calls |-> 0 ]

\* lines 171-179 as they would be without the base64 fallback of lines 172-173
WithImageUrl_WithoutFallback(w, result) ==
  IF JGet(result, "image_url", "") = ""
  THEN Returned(w, JNull, "No image data in response")
  ELSE Returned(w, result, None)

\* generate_image, lines 171-179: the decoded body of the 200 answer is at hand
WithImageUrl(w, result) ==
  IF JGet(result, "image_url", "") = "" /\ JGet(result, "image", "") # ""
  THEN Returned(w, JObject([ k \in DOMAIN result.fields \cup {"image_url"} |->
                             IF k = "image_url"
                             THEN "data:image/png;base64," \o result.fields["image"]
                             ELSE result.fields[k] ]),
                None)
  ELSE IF JGet(result, "image_url", "") = ""
  THEN Returned(w, JNull, "No image data in response")
  ELSE Returned(w, result, None)

\* generate_image, lines 163-179: _send_request has returned sr
GenerateFinish(sr) ==
  IF Truthy(sr.error) THEN Returned(sr.w, JNull, sr.error)
  ELSE IF sr.result.json # "object" THEN Raised(sr.w, "AttributeError")
  ELSE WithImageUrl(sr.w, sr.result)

\* generate_image as it would be if the outcome of the probe were not looked at
GenerateProbed_ProbeIgnored(probe, config, a) ==
  IF a.prompt = None THEN Raised(probe.w, "TypeError")
  ELSE GenerateFinish(_send_request(probe.w, config, "/generate", GeneratePayload(a),
                                    DefaultMaxRetries, DefaultRetryDelay))

\* generate_image, lines 141-179: _test_connection has returned probe
GenerateProbed(probe, config, a) ==
  IF ~probe.value
  THEN Returned(probe.w, JNull,
                "Backend service is currently unavailable. Please try again later.")
  ELSE IF a.prompt = None THEN Raised(probe.w, "TypeError")
  ELSE GenerateFinish(_send_request(probe.w, config, "/generate", GeneratePayload(a),
                                    DefaultMaxRetries, DefaultRetryDelay))

\* generate_image as it would be without the refusal of lines 137-139
GenerateFrom_WithoutRefusal(w, config, a) ==
  GenerateProbed(HealthProbe(w.base_url, HttpGet(w, w.base_url \o "/health")), config, a)

\* generate_image, lines 137-179: the base URL has been looked up
GenerateFrom(w, config, a) ==
  IF ~Truthy(w.base_url)
  THEN Returned(w, JNull,
         "Image generation is disabled because COLAB_ENDPOINT is not configured or accessible.")
  ELSE GenerateProbed(_test_connection(w, config), config, a)

\* generate_image(prompt, style, guidance_scale, negative_prompt, num_inference_steps,
\* seed), the arguments in the record a
generate_image(w0, config, a) == GenerateFrom(_ensure_base_url(w0, config), config, a)

\* adapted_result of validate_prompt, lines 217-228
AdaptedResult(result, prompt) ==
  JObject([ valid |-> JGet(result, "prompt_score", 0) > 500,
            prompt_score |-> JGet(result, "prompt_score", 0),
            detected_style |-> JGet(result, "detected_style", "unknown"),
            style_confidence |-> JGet(result, "style_confidence", 0),
            intent |-> JGet(result, "intent", "ask"),
            enhanced_prompt |-> JGet(result, "enhanced_prompt", prompt),
            style_reasons |-> JGet(result, "style_reasons",
                                   << "Based on general design elements" >>),
            message |-> JGet(result, "message", "Prompt validation completed") ])

\* validate_prompt, lines 182-186: the local engine has returned run
LocalReturned(w, run) ==
  [ Returned(w, JObject(run.result), None) EXCEPT !.model_calls = run.model_calls ]

\* the shape test as it would be with result.get("valid") for "valid" in result
ValidateFinish_ValidTruthy(sr, prompt) ==
  IF Truthy(sr.error) THEN Returned(sr.w, JNull, sr.error)
  ELSE IF JTruthy(sr.result) /\ JGet(sr.result, "valid", FALSE) = TRUE
  THEN Returned(sr.w, sr.result, None)
  ELSE IF JTruthy(sr.result) /\ JHas(sr.result, "prompt_score")
  THEN Returned(sr.w, AdaptedResult(sr.result, prompt), None)
  ELSE Returned(sr.w, JNull, "Invalid response format from backend")

\* validate_prompt, lines 204-233: _send_request has returned sr
ValidateFinish(sr, prompt) ==
  IF Truthy(sr.error) THEN Returned(sr.w, JNull, sr.error)
  ELSE IF JTruthy(sr.result) /\ JHas(sr.result, "valid")
  THEN Returned(sr.w, sr.result, None)
  ELSE IF JTruthy(sr.result) /\ JHas(sr.result, "prompt_score")
  THEN Returned(sr.w, AdaptedResult(sr.result, prompt), None)
  ELSE Returned(sr.w, JNull, "Invalid response format from backend")

\* validate_prompt, lines 193-233: the base URL has been looked up
ValidateFrom(w, config, prompt) ==
  IF ~Truthy(w.base_url) THEN Returned(w, JNull, "Backend URL not configured")
  ELSE IF prompt = None THEN Raised(w, "TypeError")
  ELSE ValidateFinish(_send_request(w, config, "/validate_prompt", [ prompt |-> prompt ],
                                    DefaultMaxRetries, DefaultRetryDelay),
                      prompt)

\* validate_prompt as it would be without the local branch of lines 182-189
validate_prompt_AlwaysRemote(w0, config, prompt, cls) ==
  ValidateFrom(_ensure_base_url(w0, config), config, prompt)

\* validate_prompt(prompt); cls is what the local classifier does when it is asked.
\* model_calls counts its invocations
validate_prompt(w0, config, prompt, cls) ==
  IF w0.use_local_validation
  THEN LocalReturned(w0, validate_prompt_locally(prompt, cls, w0.keyword_order))
  ELSE ValidateFrom(_ensure_base_url(w0, config), config, prompt)

\* check_health
check_health(w) ==
  IF ~Truthy(w.base_url) THEN [ w |-> w, value |-> FALSE ]
  ELSE LET health == HttpGet(w, w.base_url \o "/health")
       IN  IF health.answer.kind # "response" THEN [ w |-> health.w, value |-> FALSE ]
           ELSE IF health.answer.status = "404"
           THEN LET root == HttpGet(health.w, w.base_url)
                IN  [ w |-> root.w,
                      value |-> root.answer.kind = "response" /\ root.answer.status = "200" ]
           ELSE [ w |-> health.w, value |-> health.answer.status = "200" ]


(***************************************************************************)
(* routes.generate_image: the generate-image request                       *)
(***************************************************************************)
\* a gateway call as the route made it: the prompt passed and what came back
GatewayCall(name, prompt, out) ==
  [ name |-> name, prompt |-> prompt, result |-> out.result, error |-> out.error,
    exc |-> out.exc ]

\* lines 138-173: generate_image has returned g (an exception goes to line 175); the
\* route leaves the gateway as its second call left it, a response status, and the
\* gateway calls it made, their requests in one list
RouteGenerated(v, g, prompt) ==
  [ w |-> [ g.w EXCEPT !.sent = v.w.sent \o g.w.sent, !.sleeps = v.w.sleeps \o g.w.sleeps ],
    status |-> IF g.exc # None \/ Truthy(g.error) \/ JGet(g.result, "image_url", "") = ""
               THEN "500" ELSE "200",
    calls |-> << GatewayCall("validate_prompt", prompt, v),
                 GatewayCall("generate_image", prompt, g) >> ]

\* the arguments of the call of line 138
RouteGenerateArgs(prompt, style, validation_result) ==
  LET final_style == IF Truthy(style) /\ style # "auto" THEN style
                     ELSE JGet(validation_result, "detected_style", "modern")
  IN  [ prompt |-> prompt, style |-> final_style,
        guidance_scale |-> << DefaultGuidanceScale >>, negative_prompt |-> None,
        num_inference_steps |-> << >>, seed |-> << >> ]

\* the route as it would be without the test of line 124
RouteValidated_WithoutValidTest(v, config, req, prompt, gets, posts) ==
  IF v.exc # None \/ Truthy(v.error) \/ ~req.session_found
  THEN [ w |-> v.w,
         status |-> IF v.exc # None THEN "500" ELSE IF Truthy(v.error) THEN "400" ELSE "403",
         calls |-> << GatewayCall("validate_prompt", prompt, v) >> ]
  ELSE RouteGenerated(
         v,
         generate_image([ v.w EXCEPT !.gets = gets, !.posts = posts, !.sent = << >>,
                                     !.sleeps = << >> ],
                        config, RouteGenerateArgs(prompt, req.style, v.result)),
         prompt)

\* lines 108-173: validate_prompt has returned v (an exception goes to line 175): 400
\* for a validation error, 403 for a session that is not the user's, 400 for a result
\* that is not valid (500 when the result is no dict), else the generation
RouteValidated(v, config, req, prompt, gets, posts) ==
  IF v.exc # None \/ Truthy(v.error) \/ ~req.session_found
  THEN [ w |-> v.w,
         status |-> IF v.exc # None THEN "500" ELSE IF Truthy(v.error) THEN "400" ELSE "403",
         calls |-> << GatewayCall("validate_prompt", prompt, v) >> ]
  ELSE IF ~JTruthy(v.result) \/ JGet(v.result, "valid", None) # TRUE
  THEN [ w |-> v.w,
         status |-> IF v.result.json = "object" THEN "400" ELSE "500",
         calls |-> << GatewayCall("validate_prompt", prompt, v) >> ]
  ELSE RouteGenerated(
         v,
         generate_image([ v.w EXCEPT !.gets = gets, !.posts = posts, !.sent = << >>,
                                     !.sleeps = << >> ],
                        config, RouteGenerateArgs(prompt, req.style, v.result)),
         prompt)

\* routes.generate_image, lines 97-178: req is the JSON body; cls is what the
\* classifier does for the validation (the backend's answers to it are in w0), gets and
\* posts what the backend does for the generation
routes_generate_image(w0, config, req, cls, gets, posts) ==
  IF ~IsStr(req.prompt) THEN [ w |-> w0, status |-> "500", calls |-> << >> ]
  ELSE IF Strip(req.prompt) = "" THEN [ w |-> w0, status |-> "400", calls |-> << >> ]
  ELSE RouteValidated(validate_prompt(w0, config, Strip(req.prompt), cls), config, req,
                      Strip(req.prompt), gets, posts)

(***************************************************************************)
(* chat.py: the invalid-prompt cache                                       *)
(***************************************************************************)
\* CACHE_TTL = 300, seconds
CACHE_TTL == 300

\* dict.get(key, {}) on a dict of dicts
EntriesFor(cached, user_id) == IF user_id \in DOMAIN cached THEN cached[user_id] ELSE << >>

\* the lookup as it would be with <= for < in line 19
is_recently_invalid_Inclusive(cached, user_id, prompt, now) ==
  /\ prompt \in DOMAIN EntriesFor(cached, user_id)
  /\ EntriesFor(cached, user_id)[prompt] # 0
  /\ now - EntriesFor(cached, user_id)[prompt] <= CACHE_TTL

\* is_recently_invalid(user_id, prompt) when time.time() returns now: ts is None for a
\* missing entry, and a ts of 0 is falsy too
is_recently_invalid(cached, user_id, prompt, now) ==
  /\ prompt \in DOMAIN EntriesFor(cached, user_id)
  /\ EntriesFor(cached, user_id)[prompt] # 0
  /\ now - EntriesFor(cached, user_id)[prompt] < CACHE_TTL

\* mark_invalid(user_id, prompt) when time.time() returns now: the dict it leaves
mark_invalid(cached, user_id, prompt, now) ==
  [ u \in DOMAIN cached \cup { user_id } |->
      IF u = user_id
      THEN [ p \in DOMAIN EntriesFor(cached, u) \cup { prompt } |->
               IF p = prompt THEN now ELSE cached[u][p] ]
      ELSE cached[u] ]
(***************************************************************************)
(* Inputs of the gateway                                                   *)
(***************************************************************************)
\* COLAB_ENDPOINT values the application is started with and has a gateway (with the
\* variable unset the value is None, init_app raises on None.rstrip, create_app catches
\* it at line 149 and the application has no backend_service)
EnvEndpoints == { "", "https://colab-a.example/" }

\* endpoints posted to /connect-model
ConnectEndpoints == { "", " colab-b.example/ " }

\* answers to the GET probes of /health and of the root path
GetAnswers ==
  { Response("200", FALSE, JNull), Response("404", FALSE, JNull),
    Response("500", FALSE, JNull), ExceptionAnswer("Connection refused"), TimeoutAnswer }

\* answers that end a dispatch without success: a server error with an error message,
\* with "error": null and with a body that is no object, an undecodable error page, an
\* undecodable 200, a refused connection
FailureAnswers ==
  { Response("500", TRUE, JObject([ error |-> "Model overloaded" ])),
    Response("500", TRUE, JObject([ error |-> None ])),
    Response("500", TRUE, JList),
    Response("404", FALSE, JNull),
    Response("200", FALSE, JNull),
    ExceptionAnswer("Connection refused") }

RetryAnswers == { Response("429", TRUE, JObject(<< >>)), TimeoutAnswer }

\* bodies of a 200 answer of /validate_prompt
ValidateBodies ==
  { JObject([ valid |-> TRUE, detected_style |-> "modern", style_confidence |-> 870,
              message |-> "ok" ]),
    JObject([ valid |-> FALSE, detected_style |-> "unknown", style_confidence |-> 0 ]),
    JObject([ valid |-> FALSE, detected_style |-> "modern", style_confidence |-> 420 ]),
    JObject([ valid |-> TRUE, prompt_score |-> 200 ]),
    JObject([ prompt_score |-> 700, detected_style |-> "coastal" ]),
    JObject([ prompt_score |-> 500 ]),
    JObject([ prompt_score |-> 501, style_confidence |-> 640, intent |-> "generate",
              enhanced_prompt |-> "a bright coastal living room",
              style_reasons |-> << "mentions of colors like 'aqua'" >>,
              message |-> "scored" ]),
    JObject([ prompt_score |-> 300, detected_style |-> "coastal", style_confidence |-> 650 ]),
    JObject([ prompt_score |-> 900, detected_style |-> "rustic",
              secondary_style |-> "coastal", secondary_confidence |-> 80 ]),
    JObject([ status |-> "ok" ]),
    JObject(<< >>),
    JList,
    JNull }

\* bodies of a 200 answer of /generate
GenerateBodies ==
  { JObject([ image_url |-> "https://colab-a.example/out/1.png" ]),
    JObject([ image |-> "iVBORw0KGgo=" ]),
    JObject([ image_url |-> "", image |-> "iVBORw0KGgo=", seed |-> 7 ]),
    JObject([ image_url |-> "https://colab-a.example/out/2.png", image |-> "iVBORw0KGgo=" ]),
    JObject([ status |-> "ok" ]),
    JObject(<< >>),
    JList,
    JNull }

\* the POST answers of one gateway call: retried answers, then the answer that ends
\* the dispatch (bodies: the 200 bodies of the path called)
RetryPrefixes ==
  { << >>, << Response("429", TRUE, JObject(<< >>)) >>, << TimeoutAnswer >>,
    << Response("429", TRUE, JObject(<< >>)), TimeoutAnswer >> }

PostAnswers(bodies) ==
  { pre \o << last >> :
      pre \in RetryPrefixes,
      last \in FailureAnswers \cup { Response("200", TRUE, b) : b \in bodies } }
    \cup { << r, r, r >> : r \in RetryAnswers }

\* the prompts sent through the gateway, the classifier outcomes of its local mode
GatewayPrompts ==
  { None, "", "garden shed", "coastal living room", "mid-century modern living room" }

GatewayClassifierOutcomes ==
  { c \in ClassifierOutcomes : c.raises \/ \A i \in DOMAIN label_map : c.logits[i] = 0 }

\* the arguments the routes give generate_image: prompt and style, the rest defaulted
GenerateArgs ==
  { [ prompt |-> p, style |-> s, guidance_scale |-> << DefaultGuidanceScale >>,
      negative_prompt |-> None, num_inference_steps |-> << >>, seed |-> << >> ] :
      p \in { None, "coastal living room" }, s \in { "auto", "coastal" } }

\* the arguments a caller can give generate_image: each option at its default, at
\* another value, and at the falsy values of its type (guidance_scale in tenths)
GenerateOptionArgs ==
  [ prompt : { "coastal living room" },
    style : { DefaultStyle, "auto", "coastal", "" },
    guidance_scale : { << DefaultGuidanceScale >>, << 90 >>, << 0 >> },
    negative_prompt : { None, "", "blurry" },
    num_inference_steps : { << >>, << 0 >>, << 30 >> },
    seed : { << >>, << 0 >>, << 42 >> } ]

(***************************************************************************)
(* State                                                                   *)
(***************************************************************************)
VARIABLES
  base_url,              \* BackendService.base_url of the application's gateway
  use_local_validation,  \* BackendService.use_local_validation
  config,                \* app.config: COLAB_ENDPOINT and USE_LOCAL_BERT
  keyword_order,         \* the order of the lists of STYLE_KEYWORDS in this process
  connected,             \* the endpoint /connect-model last answered 200 for, or None
  threads,               \* where each request thread stands in _ensure_base_url/init_app
  observed,              \* the base_url a reader last saw set, or None
  recent_invalid_prompts,  \* chat.recent_invalid_prompts: user_id -> prompt -> timestamp
  clock,                 \* what time.time() returns, in seconds
  marked,                \* when mark_invalid was last called for a user and prompt, or Never
  pc,            \* "idle", or "returned" when the last call's outcome is on record
  op,            \* the operation called last
  args,          \* its arguments and the answers its environment gave
  ret,           \* what it returned
  exc,           \* the exception that escaped it, or None
  sent,          \* the HTTP requests it sent, in order
  sleeps,        \* the sleeps it took, in order (seconds)
  model_calls    \* how often it invoked the tokenizer and the model

gateway == << base_url, use_local_validation, config, keyword_order >>

record == << op, args, ret, exc, sent, sleeps, model_calls >>

\* what only the interleaved requests change
interleaving == << threads, observed >>

\* what only the calls of chat.py and the passing of time change
cache == << recent_invalid_prompts, clock, marked >>

vars == << base_url, use_local_validation, config, keyword_order, connected, threads,
           observed, recent_invalid_prompts, clock, marked, pc, op, args, ret, exc, sent,
           sleeps, model_calls >>

\* the world a call starts in
World(gets, posts) ==
  [ base_url |-> base_url, use_local_validation |-> use_local_validation,
    keyword_order |-> keyword_order,
    gets |-> gets, posts |-> posts, sent |-> << >>, sleeps |-> << >> ]

NoRecord ==
  /\ op = "none"
  /\ args = << >>
  /\ ret = << >>
  /\ exc = None
  /\ sent = << >>
  /\ sleeps = << >>
  /\ model_calls = 0

\* largest number of requests served at the same time
MaxThreads == 2

\* a thread outside init_app: it has no local backend_url
Outside == [ at |-> "idle", backend_url |-> "" ]

\* the users and prompts of the invalid-prompt cache
Users == { 1, 2 }

CachePrompts == { "garden shed", "a cozy bedroom with plants" }

\* time.time() when the process starts, the seconds between two readings of the clock
\* and the last reading of the model
ProcessStart == 1000

ClockStep == 150

MaxClock == 1600

\* no call of mark_invalid yet
Never == -1

\* create_app: the configuration comes from the environment and BackendService(app)
\* runs init_app on a new object (base_url None, use_local_validation False); the
\* import of bert_validation has computed STYLE_KEYWORDS in one of its orders
Init ==
  /\ keyword_order \in KeywordOrders
  /\ connected = None
  /\ threads = [ t \in 1..MaxThreads |-> Outside ]
  /\ observed = None
  /\ recent_invalid_prompts = << >>
  /\ clock = ProcessStart
  /\ marked = [ k \in Users \X CachePrompts |-> Never ]
  /\ config \in [ COLAB_ENDPOINT : EnvEndpoints, USE_LOCAL_BERT : BOOLEAN ]
  /\ \E answer \in GetAnswers :
       LET built == init_app([ base_url |-> None, use_local_validation |-> FALSE,
                               gets |-> << answer >>, posts |-> << answer >>,
                               sent |-> << >>, sleeps |-> << >> ], config)
       IN  /\ base_url = built.w.base_url
           /\ use_local_validation = built.w.use_local_validation
  /\ pc = "idle"
  /\ NoRecord

\* the caller takes the outcome; the next call starts from a clean record
Return ==
  /\ pc = "returned"
  /\ pc' = "idle"
  /\ op' = "none"
  /\ args' = << >>
  /\ ret' = << >>
  /\ exc' = None
  /\ sent' = << >>
  /\ sleeps' = << >>
  /\ model_calls' = 0
  /\ UNCHANGED << gateway, connected, interleaving, cache >>

\* what every gateway call leaves behind
Leaves(w, name, arguments, returned, exception, calls) ==
  /\ base_url' = w.base_url
  /\ use_local_validation' = w.use_local_validation
  /\ sent' = w.sent
  /\ sleeps' = w.sleeps
  /\ op' = name
  /\ args' = arguments
  /\ ret' = returned
  /\ exc' = exception
  /\ model_calls' = calls
  /\ pc' = "returned"
  /\ UNCHANGED << config, keyword_order, connected, interleaving, cache >>

(***************************************************************************)
(* The validation engine on its own                                        *)
(***************************************************************************)
ValidateLocally ==
  /\ pc = "idle"
  /\ \E prompt \in Prompts, cls \in ClassifierOutcomes :
       LET run == validate_prompt_locally(prompt, cls, keyword_order)
       IN  /\ op' = "validate_prompt_locally"
           /\ args' = [ prompt |-> prompt, cls |-> cls ]
           /\ ret' = run.result
           /\ model_calls' = run.model_calls
  /\ pc' = "returned"
  /\ UNCHANGED << gateway, connected, interleaving, cache, exc, sent, sleeps >>

NextEngine == ValidateLocally \/ Return

\* the engine reads nothing of the gateway: one configuration is enough
InitEngine == Init /\ config = [ COLAB_ENDPOINT |-> "", USE_LOCAL_BERT |-> TRUE ]

SpecEngine == InitEngine /\ [][NextEngine]_vars

(***************************************************************************)
(* Dispatch on its own: _send_request with every answer sequence           *)
(***************************************************************************)
\* largest max_retries passed, and the length of the answer sequences
MaxAttempts == 3

DispatchAnswers ==
  RetryAnswers
    \cup { Response("200", TRUE, JObject([ ok |-> TRUE ])),
           Response("200", FALSE, JNull),
           Response("500", TRUE, JObject([ error |-> "Model overloaded" ])),
           Response("500", TRUE, JObject([ error |-> None ])),
           Response("404", FALSE, JNull),
           ExceptionAnswer("Connection refused") }

Dispatch ==
  /\ pc = "idle"
  /\ \E max_retries \in 0..MaxAttempts, posts \in [ 1..MaxAttempts -> DispatchAnswers ] :
       LET out == _send_request(World(<< ExceptionAnswer("Connection refused") >>, posts),
                                config, "/generate", [ prompt |-> "coastal living room" ],
                                max_retries, DefaultRetryDelay)
       IN  Leaves(out.w, "_send_request", [ max_retries |-> max_retries, posts |-> posts ],
                  [ result |-> out.result, error |-> out.error ], None, 0)

NextDispatch == Dispatch \/ Return

SpecDispatch == Init /\ [][NextDispatch]_vars

(***************************************************************************)
(* The gateway's public operations                                         *)
(***************************************************************************)
\* the inputs a validate_prompt call can read: the classifier in local mode, the
\* network in remote mode
ValidateInputs ==
  IF use_local_validation
  THEN { [ prompt |-> p, cls |-> c, gets |-> << TimeoutAnswer >>,
           posts |-> << TimeoutAnswer >> ] :
           p \in GatewayPrompts, c \in GatewayClassifierOutcomes }
  ELSE { [ prompt |-> p, cls |-> CHOOSE c \in GatewayClassifierOutcomes : c.raises,
           gets |-> g, posts |-> a ] :
           p \in { None, "coastal living room" }, g \in [ 1..2 -> GetAnswers ],
           a \in PostAnswers(ValidateBodies) }

ValidatePrompt ==
  /\ pc = "idle"
  /\ \E in \in ValidateInputs :
       LET out == validate_prompt(World(in.gets, in.posts), config, in.prompt, in.cls)
       IN  Leaves(out.w, "validate_prompt", in,
                  [ result |-> out.result, error |-> out.error ], out.exc, out.model_calls)

GenerateImage ==
  /\ pc = "idle"
  /\ \E a \in GenerateArgs, gets \in [ 1..2 -> GetAnswers ],
        posts \in PostAnswers(GenerateBodies) :
       LET out == generate_image(World(gets, posts), config, a)
       IN  Leaves(out.w, "generate_image", [ a |-> a, gets |-> gets, posts |-> posts ],
                  [ result |-> out.result, error |-> out.error ], out.exc, 0)

TestConnection ==
  /\ pc = "idle"
  /\ \E gets \in [ 1..2 -> GetAnswers ] :
       LET out == _test_connection(World(gets, << TimeoutAnswer >>), config)
       IN  Leaves(out.w, "_test_connection", [ gets |-> gets ], [ value |-> out.value ],
                  None, 0)

CheckHealth ==
  /\ pc = "idle"
  /\ \E gets \in [ 1..2 -> GetAnswers ] :
       LET out == check_health(World(gets, << TimeoutAnswer >>))
       IN  Leaves(out.w, "check_health", [ gets |-> gets ], [ value |-> out.value ],
                  None, 0)

\* views.connect_model: POST /connect-model with the endpoint of the request body
ConnectModel ==
  /\ pc = "idle"
  /\ \E posted \in ConnectEndpoints, gets \in [ 1..2 -> GetAnswers ] :
       LET stripped == Strip(posted)
           endpoint == RStripSlash(IF StartsAt(stripped, 1, "http") THEN stripped
                                   ELSE "https://" \o stripped)
       IN  IF stripped = ""
           THEN /\ config' = config
                /\ connected' = connected
                /\ sent' = << >>
                /\ ret' = [ status |-> "400" ]
                /\ args' = [ endpoint |-> posted, gets |-> gets ]
           ELSE LET out == _test_connection(
                             [ base_url |-> endpoint, use_local_validation |-> FALSE,
                               gets |-> gets, posts |-> << TimeoutAnswer >>,
                               sent |-> << >>, sleeps |-> << >> ],
                             [ config EXCEPT !.COLAB_ENDPOINT = endpoint ])
                IN  /\ config' = [ config EXCEPT !.COLAB_ENDPOINT = endpoint ]
                    /\ connected' = IF out.value THEN endpoint ELSE connected
                    /\ sent' = out.w.sent
                    /\ ret' = [ status |-> IF out.value THEN "200" ELSE "500" ]
                    /\ args' = [ endpoint |-> posted, gets |-> gets ]
  /\ op' = "connect_model"
  /\ pc' = "returned"
  /\ UNCHANGED << base_url, use_local_validation, keyword_order, interleaving, cache, exc,
                  sleeps, model_calls >>

Next ==
  \/ ValidatePrompt
  \/ GenerateImage
  \/ TestConnection
  \/ CheckHealth
  \/ ConnectModel
  \/ Return

Spec == Init /\ [][Next]_vars


(***************************************************************************)
(* generate_image with every combination of its options                    *)
(***************************************************************************)
\* the backend is up: the probe gets 200 and the POST an image or a server error
GenerateWithOptions ==
  /\ pc = "idle"
  /\ \E a \in GenerateOptionArgs,
        post \in { Response("200", TRUE,
                            JObject([ image_url |-> "https://colab-a.example/out/1.png" ])),
                   Response("500", TRUE, JObject([ error |-> "Model overloaded" ])) } :
       LET out == generate_image(World(<< Response("200", FALSE, JNull) >>, << post >>),
                                 config, a)
       IN  Leaves(out.w, "generate_image",
                  [ a |-> a, gets |-> << Response("200", FALSE, JNull) >>,
                    posts |-> << post >> ],
                  [ result |-> out.result, error |-> out.error ], out.exc, 0)

NextGenerateOptions == GenerateWithOptions \/ Return

SpecGenerateOptions == Init /\ [][NextGenerateOptions]_vars

(***************************************************************************)
(* Requests served at the same time: _ensure_base_url and init_app line by *)
(* line, against /connect-model setting the configured endpoint            *)
(***************************************************************************)
\* the record of the last call stays empty: these steps are parts of calls
Recordless == UNCHANGED << cache, pc, op, args, ret, exc, sent, sleeps, model_calls >>

\* line 43-45: a gateway operation of thread t finds no base_url in remote mode and
\* enters init_app (otherwise _ensure_base_url does nothing)
EnsureBaseUrl(t) ==
  /\ pc = "idle"
  /\ threads[t].at = "idle"
  /\ ~Truthy(base_url) /\ ~use_local_validation
  /\ threads' = [ threads EXCEPT ![t].at = "init_app:22" ]
  /\ UNCHANGED << gateway, connected, observed >>
  /\ Recordless

\* line 22
InitAppLocalFlag(t) ==
  /\ threads[t].at = "init_app:22"
  /\ use_local_validation' = config.USE_LOCAL_BERT
  /\ threads' = [ threads EXCEPT ![t].at = "init_app:27" ]
  /\ UNCHANGED << base_url, config, keyword_order, connected, observed >>
  /\ Recordless

\* line 27
InitAppReadEndpoint(t) ==
  /\ threads[t].at = "init_app:27"
  /\ threads' = [ threads EXCEPT ![t] = [ at |-> "init_app:28",
                                          backend_url |-> RStripSlash(config.COLAB_ENDPOINT) ] ]
  /\ UNCHANGED << gateway, connected, observed >>
  /\ Recordless

\* lines 28-29 and 35-39
InitAppSetBaseUrl(t) ==
  /\ threads[t].at = "init_app:28"
  /\ IF threads[t].backend_url # ""
     THEN /\ base_url' = threads[t].backend_url
          /\ threads' = [ threads EXCEPT ![t].at = "init_app:32" ]
     ELSE /\ base_url' = None
          /\ threads' = [ threads EXCEPT ![t] = Outside ]
  /\ UNCHANGED << use_local_validation, config, keyword_order, connected, observed >>
  /\ Recordless

\* lines 32-34 and 39: the probe, taken in one step, and the return
InitAppProbe(t) ==
  /\ threads[t].at = "init_app:32"
  /\ \E answer \in GetAnswers :
       LET out == _test_connection(World(<< answer >>, << TimeoutAnswer >>), config)
       IN  /\ base_url' = out.w.base_url
           /\ use_local_validation' = out.w.use_local_validation
  /\ threads' = [ threads EXCEPT ![t] = Outside ]
  /\ UNCHANGED << config, keyword_order, connected, observed >>
  /\ Recordless

\* views.connect_model, lines 100-112: the endpoint of a request is written to the
\* configuration (what follows works on a BackendService of its own)
SetConfiguredEndpoint ==
  /\ pc = "idle"
  /\ \E posted \in ConnectEndpoints :
       /\ Strip(posted) # ""
       /\ config' = [ config EXCEPT !.COLAB_ENDPOINT =
                        RStripSlash(IF StartsAt(Strip(posted), 1, "http") THEN Strip(posted)
                                    ELSE "https://" \o Strip(posted)) ]
  /\ UNCHANGED << base_url, use_local_validation, keyword_order, connected, interleaving >>
  /\ Recordless

\* a request reads self.base_url (lines 51, 75, 137) and finds it set
ReadBaseUrl ==
  /\ Truthy(base_url)
  /\ observed' = base_url
  /\ UNCHANGED << gateway, connected, threads >>
  /\ Recordless

NextInterleaved ==
  \/ \E t \in 1..MaxThreads : EnsureBaseUrl(t)
  \/ \E t \in 1..MaxThreads : InitAppLocalFlag(t)
  \/ \E t \in 1..MaxThreads : InitAppReadEndpoint(t)
  \/ \E t \in 1..MaxThreads : InitAppSetBaseUrl(t)
  \/ \E t \in 1..MaxThreads : InitAppProbe(t)
  \/ SetConfiguredEndpoint
  \/ ReadBaseUrl

SpecInterleaved == Init /\ [][NextInterleaved]_vars

(***************************************************************************)
(* The generate-image request: routes.generate_image calls validate_prompt *)
(* and then generate_image of the application's gateway                    *)
(***************************************************************************)
\* the JSON bodies posted to /generate-image: prompt (absent is ""), style, and
\* whether the session named belongs to the user
RouteRequests ==
  [ prompt : { "", "   ", NonString, "garden shed", " coastal living room " },
    style : { "", "auto", "rustic" },
    session_found : BOOLEAN ]

\* what the validation of a request can read: the classifier in local mode, in remote
\* mode the answers of the backend to the probe and to the POST
RouteValidateInputs ==
  IF use_local_validation
  THEN { [ cls |-> c, gets |-> << TimeoutAnswer >>, posts |-> << TimeoutAnswer >> ] :
           c \in GatewayClassifierOutcomes }
  ELSE { [ cls |-> CHOOSE c \in GatewayClassifierOutcomes : c.raises,
           gets |-> << g >>, posts |-> << a >> ] :
           g \in { Response("200", FALSE, JNull), ExceptionAnswer("Connection refused") },
           a \in { Response("200", TRUE, b) :
                     b \in { JObject([ valid |-> TRUE, detected_style |-> "modern",
                                       style_confidence |-> 870, message |-> "ok" ]),
                             JObject([ valid |-> FALSE, detected_style |-> "unknown",
                                       style_confidence |-> 0 ]),
                             JObject([ prompt_score |-> 700, detected_style |-> "coastal" ]),
                             JObject([ prompt_score |-> 300, detected_style |-> "coastal" ]),
                             JObject(<< >>), JNull } }
                 \cup { Response("500", TRUE, JObject([ error |-> "Model overloaded" ])),
                        TimeoutAnswer } }

\* the backend answers the generation with an image, with null or with a server error
GenerateImageRequest ==
  /\ pc = "idle"
  /\ \E req \in RouteRequests, in \in RouteValidateInputs,
        g \in { Response("200", FALSE, JNull), ExceptionAnswer("Connection refused") },
        post \in { Response("200", TRUE,
                            JObject([ image_url |-> "https://colab-a.example/out/1.png" ])),
                   Response("200", TRUE, JNull),
                   Response("500", TRUE, JObject([ error |-> "Model overloaded" ])) } :
       LET out == routes_generate_image(World(in.gets, in.posts), config, req, in.cls,
                                        << g >>, << post >>)
       IN  Leaves(out.w, "routes.generate_image",
                  [ req |-> req, in |-> in, gets |-> << g >>, posts |-> << post >> ],
                  [ status |-> out.status, calls |-> out.calls ], None, 0)

NextRoute == GenerateImageRequest \/ Return

SpecRoute == Init /\ [][NextRoute]_vars

(***************************************************************************)
(* The invalid-prompt cache: marks, lookups and the passing of time        *)
(***************************************************************************)
\* what the calls of chat.py leave alone
Gatewayless == UNCHANGED << gateway, connected, interleaving, exc, sent, sleeps, model_calls >>

MarkInvalid ==
  /\ pc = "idle"
  /\ \E user_id \in Users, prompt \in CachePrompts :
       /\ recent_invalid_prompts' = mark_invalid(recent_invalid_prompts, user_id, prompt, clock)
       /\ marked' = [ marked EXCEPT ![<< user_id, prompt >>] = clock ]
       /\ op' = "mark_invalid"
       /\ args' = [ user_id |-> user_id, prompt |-> prompt ]
       /\ ret' = [ value |-> None ]
  /\ pc' = "returned"
  /\ UNCHANGED clock
  /\ Gatewayless

IsRecentlyInvalid ==
  /\ pc = "idle"
  /\ \E user_id \in Users, prompt \in CachePrompts :
       /\ op' = "is_recently_invalid"
       /\ args' = [ user_id |-> user_id, prompt |-> prompt ]
       /\ ret' = [ value |-> is_recently_invalid(recent_invalid_prompts, user_id, prompt, clock) ]
  /\ pc' = "returned"
  /\ UNCHANGED cache
  /\ Gatewayless

\* time passes between two calls
Tick ==
  /\ pc = "idle"
  /\ clock + ClockStep <= MaxClock
  /\ clock' = clock + ClockStep
  /\ UNCHANGED << recent_invalid_prompts, marked, pc, op, args, ret >>
  /\ Gatewayless

NextCache == MarkInvalid \/ IsRecentlyInvalid \/ Tick \/ Return

\* the cache reads nothing of the gateway: one configuration is enough
SpecCache == InitEngine /\ [][NextCache]_vars

(***************************************************************************)
(* Properties: what the call on record was given and what it gave back     *)
(***************************************************************************)
\* the number of POST requests the call on record sent
PostsSent == Cardinality({ i \in DOMAIN sent : sent[i].method = "POST" })

\* the answer to its last POST
LastPostAnswer == AnswerAt(args.posts, PostsSent)

\* an answer with status 429, or a request timeout
IsRetryOutcome(a) == a.kind = "timeout" \/ (a.kind = "response" /\ a.status = "429")

\* a 200 answer with a JSON body
IsJson200(a) == a.kind = "response" /\ a.status = "200" /\ a.decodable

\* a status that is neither 200 nor 429, or a connection-level exception
IsImmediateFailure(a) ==
  a.kind = "exception" \/ (a.kind = "response" /\ a.status \notin { "200", "429" })

\* the reason of an immediate failure: the text of the exception, the error member
\* the server supplied, or the generic message with the status
FailureReason(a) ==
  IF a.kind = "exception" THEN a.status
  ELSE IF a.decodable /\ JHas(a.body, "error") THEN a.body.fields["error"]
  ELSE "HTTP error " \o a.status

\* two decoded values are the same value
JSame(x, y) ==
  /\ x.json = y.json
  /\ x.json = "object" =>
       /\ DOMAIN x.fields = DOMAIN y.fields
       /\ \A k \in DOMAIN x.fields : x.fields[k] = y.fields[k]

DispatchReturned == pc = "returned" /\ op = "_send_request"

C3_AtMostMaxAttempts ==
  DispatchReturned =>
    /\ Len(sent) <= args.max_retries
    /\ Len(sleeps) <= args.max_retries
    /\ (ret.error = "Maximum retry attempts reached")
         <=> ( /\ Truthy(base_url)
               /\ PostsSent = args.max_retries
               /\ \A i \in 1..args.max_retries : IsRetryOutcome(args.posts[i]) )

C3_RetriesExhausted ==
  /\ DispatchReturned /\ args.max_retries = 2
  /\ args.posts[1].kind = "timeout"
  /\ args.posts[2].kind = "response" /\ args.posts[2].status = "429"
  /\ PostsSent = 2
  /\ ret.error = "Maximum retry attempts reached"

ValidateReturned == pc = "returned" /\ op = "validate_prompt"

\* the call on record was a remote validation whose last POST got a 200 with this
\* kind of JSON body
RemoteBodyIs(kind) ==
  /\ ValidateReturned /\ ~use_local_validation /\ PostsSent >= 1
  /\ IsJson200(LastPostAnswer)
  /\ LastPostAnswer.body.json = kind

\* C4: every result validate_prompt returns with no error (from the local engine,
\* passed through from a response with a valid field, or adapted from the legacy
\* shape) has detected_style "unknown" and style_confidence 0 when its valid is
\* false.
C4_InvalidMeansUnknownStyle ==
  ( /\ ValidateReturned /\ exc = None /\ ret.error = None
    /\ ret.result.json = "object"
    /\ JGet(ret.result, "valid", TRUE) = FALSE )
    => /\ JGet(ret.result, "detected_style", None) = "unknown"
       /\ JGet(ret.result, "style_confidence", -1) = 0

C4_AdaptedInvalidKeepsStyle ==
  /\ RemoteBodyIs("object")
  /\ ~JHas(LastPostAnswer.body, "valid")
  /\ JGet(LastPostAnswer.body, "prompt_score", 1000) = 300
  /\ ret.error = None
  /\ JGet(ret.result, "valid", TRUE) = FALSE
  /\ JGet(ret.result, "detected_style", None) = "coastal"
  /\ JGet(ret.result, "style_confidence", -1) = 650

EngineReturned == pc = "returned" /\ op = "validate_prompt_locally"

\* the name of a label with its separators replaced by spaces
SpacedName(label) == Replace(Replace(label, "_", " "), "-", " ")

\* the label is named in the prompt of the call on record, is not rank 1 of the
\* ranking and its probability is less than 0.1 below the rank-1 probability
NamedAndClose(i) ==
  /\ Contains(SpacedName(label_map[i]), Scan(args.prompt, keyword_order).lower_prompt)
  /\ i # Rerank(args.cls.logits, Scan(args.prompt, keyword_order)).ranked[1]
  /\ GapBelowMargin(Rerank(args.cls.logits, Scan(args.prompt, keyword_order)).probs,
                    Rerank(args.cls.logits, Scan(args.prompt, keyword_order)).ranked[1], i)

\* C5: for every in-domain prompt the classifier scores, and every label whose
\* name with separators replaced by spaces is in the prompt: if the label is not
\* rank 1 and its probability is less than 0.1 below the rank-1 probability, the
\* detected_style returned is that label.
C5_OverrideProperty ==
  (EngineReturned /\ Scan(args.prompt, keyword_order).related /\ ~args.cls.raises)
    => \A i \in DOMAIN label_map : NamedAndClose(i) => ret.detected_style = label_map[i]

C5_MidCenturyModernNotHonoured ==
  /\ EngineReturned /\ ~args.cls.raises
  /\ args.prompt = "mid century modern living room"
  /\ NamedAndClose(2)
  /\ ret.valid
  /\ ret.detected_style = "modern"

\* C6: no call of validate_prompt, generate_image, _test_connection or check_health
\* lets an exception reach its caller, whatever the endpoint configured, the
\* answers of the backend and the JSON body of a 200 (object, list, null).
C6_NoExceptionEscapes == pc = "returned" => exc = None

C6_GenerateImageRaisesOnNullBody ==
  /\ pc = "returned" /\ op = "generate_image"
  /\ args.a.prompt # None
  /\ PostsSent >= 1
  /\ IsJson200(LastPostAnswer)
  /\ LastPostAnswer.body = JNull
  /\ exc = "AttributeError"

\* the fields of a ValidationResult
ValidationResultFields ==
  { "valid", "prompt_score", "detected_style", "style_confidence", "secondary_style",
    "secondary_confidence", "intent", "style_reasons", "message" }

\* C7: for every 200 response with a prompt_score and no valid field, remote
\* validate_prompt returns a result with valid = (prompt_score > 0.5), every field
\* the response supplied, and a default for every field of a ValidationResult the
\* response did not supply.
C7_LegacyNormalization ==
  ( /\ RemoteBodyIs("object") /\ exc = None
    /\ JHas(LastPostAnswer.body, "prompt_score")
    /\ ~JHas(LastPostAnswer.body, "valid") )
    => /\ ret.error = None
       /\ ret.result.json = "object"
       /\ JGet(ret.result, "valid", None) = (LastPostAnswer.body.fields["prompt_score"] > 500)
       /\ \A k \in DOMAIN LastPostAnswer.body.fields :
            JHas(ret.result, k) /\ ret.result.fields[k] = LastPostAnswer.body.fields[k]
       /\ \A k \in ValidationResultFields : JHas(ret.result, k)

C7_SecondaryStyleDropped ==
  /\ RemoteBodyIs("object")
  /\ JHas(LastPostAnswer.body, "prompt_score")
  /\ JGet(LastPostAnswer.body, "secondary_style", None) = "coastal"
  /\ ret.error = None
  /\ JGet(ret.result, "valid", FALSE) = TRUE
  /\ JGet(ret.result, "detected_style", None) = "rustic"
  /\ ~JHas(ret.result, "secondary_style")

FormatError == "Invalid response format from backend"

\* C8: remote validate_prompt returns a 200 body that has a valid field unchanged
\* and with no error; a 200 body with neither valid nor prompt_score (the empty
\* object, a list and null included) gives no result and the reason "Invalid
\* response format from backend"; a call that ends without an endpoint, on a
\* connection-level exception or with the retries exhausted gives another reason.
C8_RemoteShapes ==
  (ValidateReturned /\ ~use_local_validation /\ exc = None) =>
    /\ (PostsSent >= 1 /\ IsJson200(LastPostAnswer) /\ JHas(LastPostAnswer.body, "valid"))
         => JSame(ret.result, LastPostAnswer.body) /\ ret.error = None
    /\ ( /\ PostsSent >= 1 /\ IsJson200(LastPostAnswer)
         /\ ~JHas(LastPostAnswer.body, "valid")
         /\ ~JHas(LastPostAnswer.body, "prompt_score") )
         => ret.result = JNull /\ ret.error = FormatError
    /\ ~Truthy(base_url) => ret.error = "Backend URL not configured"
    /\ (PostsSent >= 1 /\ LastPostAnswer.kind = "exception")
         => ret.error = LastPostAnswer.status /\ ret.error # FormatError
    /\ (PostsSent >= 1 /\ IsRetryOutcome(LastPostAnswer))
         => ret.error = "Maximum retry attempts reached"
    /\ FormatError \notin { "Backend URL not configured", "Maximum retry attempts reached" }

C8_EmptyObjectIsFormatError ==
  /\ RemoteBodyIs("object")
  /\ LastPostAnswer.body = JObject(<< >>)
  /\ ret.result = JNull
  /\ ret.error = FormatError

\* the reasons of the sequence that name the category
ReasonsOf(reasons, category) ==
  { n \in DOMAIN reasons : StartsAt(reasons[n], 1, "mentions of " \o category \o " like '") }

\* C9: every result of validate_prompt_locally with valid = true has a non-empty
\* style_reasons with at most one reason for each category of the hints, whichever
\* label won, a label put first by the explicit-mention override included.
C9_OneReasonPerCategory ==
  (EngineReturned /\ ret.valid) =>
    /\ ret.style_reasons # << >>
    /\ \A c \in Range(Categories) : Cardinality(ReasonsOf(ret.style_reasons, c)) <= 1

C9_OverriddenWinnerExplained ==
  /\ EngineReturned /\ ~args.cls.raises /\ ret.valid
  /\ Rerank(args.cls.logits, Scan(args.prompt, keyword_order)).overridden
  /\ \E c \in Range(Categories) : Cardinality(ReasonsOf(ret.style_reasons, c)) = 1

\* C10: for every prompt that matches none of the living-room patterns,
\* validate_prompt_locally returns valid = false, detected_style "unknown" and
\* style_confidence 0, and neither the tokenizer nor the model is invoked.
C10_OutOfDomainRejectedUnclassified ==
  (EngineReturned /\ ~Scan(args.prompt, keyword_order).related) =>
    /\ ret.valid = FALSE
    /\ ret.detected_style = "unknown"
    /\ ret.style_confidence = 0
    /\ model_calls = 0

C10_GardenShedRejected ==
  /\ EngineReturned
  /\ args.prompt = "garden shed"
  /\ ret.valid = FALSE
  /\ ret.message = "Prompt must be related to living room design."
  /\ model_calls = 0
(***************************************************************************)
(* Properties of the engine's rejections                                   *)
(***************************************************************************)
EmptyMessage == "Prompt is empty."

DomainMessage == "Prompt must be related to living room design."

\* the text starts with "Validation error: "
IsValidationError(message) == StartsAt(message, 1, "Validation error: ")

\* C11: a prompt that is empty after sanitize_prompt (None, not a str, "" or only
\* whitespace) is rejected with "Prompt is empty." and not with the message of the
\* domain check, and every rejection carries exactly one of three different
\* messages: the empty one for an empty prompt, the domain one for a prompt outside
\* the domain, "Validation error: ..." for an error during classification.
C11_EmptyRejectedFirst ==
  EngineReturned =>
    /\ sanitize_prompt(args.prompt) = "" => ret = RejectedResult(EmptyMessage)
    /\ ~ret.valid =>
         /\ ret.message = EmptyMessage <=> sanitize_prompt(args.prompt) = ""
         /\ ret.message = DomainMessage
              <=> (sanitize_prompt(args.prompt) # "" /\ ~Scan(args.prompt, keyword_order).related)
         /\ IsValidationError(ret.message)
              <=> (sanitize_prompt(args.prompt) # "" /\ Scan(args.prompt, keyword_order).related)
         /\ EmptyMessage # DomainMessage
         /\ ~IsValidationError(EmptyMessage) /\ ~IsValidationError(DomainMessage)

C11_WhitespaceIsEmpty ==
  /\ EngineReturned
  /\ args.prompt = "   "
  /\ ret.message = EmptyMessage
  /\ model_calls = 0

(***************************************************************************)
(* Properties of generate_image                                            *)
(***************************************************************************)
GenerateReturned == pc = "returned" /\ op = "generate_image"

DisabledMessage ==
  "Image generation is disabled because COLAB_ENDPOINT is not configured or accessible."

\* the configuration holds no endpoint
NoEndpointConfigured == RStripSlash(config.COLAB_ENDPOINT) = ""

\* C12: a generate_image call that starts with the gateway's base_url unset and no
\* endpoint in the configuration returns the failure "Image generation is disabled
\* ..." without raising and sends no request at all, neither a GET probe nor a POST.
C12_RefusesWithoutNetwork ==
  [][ (pc = "idle" /\ op' = "generate_image" /\ ~Truthy(base_url) /\ NoEndpointConfigured)
        => /\ sent' = << >>
           /\ exc' = None
           /\ ret'.result = JNull
           /\ ret'.error = DisabledMessage
           /\ ~Truthy(base_url') ]_vars

C12_RefusedUnconfigured ==
  /\ GenerateReturned
  /\ ~Truthy(base_url) /\ NoEndpointConfigured
  /\ sent = << >>
  /\ ret.error = DisabledMessage

\* the call on record got a 200 with a JSON object as the answer to its last POST
LastPostIsObject ==
  /\ PostsSent >= 1
  /\ IsJson200(LastPostAnswer)
  /\ LastPostAnswer.body.json = "object"

\* C13: a generate_image call that returns success returns a result with a non-empty
\* image_url; for a 200 answer with an object body, an image_url of the body is kept
\* and the body returned as it is, a body with only an inline image gets image_url =
\* "data:image/png;base64," followed by the image and keeps its other fields, and a
\* body with neither gives the failure "No image data in response".
C13_SuccessHasImageUrl ==
  (GenerateReturned /\ exc = None) =>
    /\ ret.error = None =>
         /\ ret.result.json = "object"
         /\ JGet(ret.result, "image_url", "") # ""
    /\ LastPostIsObject =>
         IF JGet(LastPostAnswer.body, "image_url", "") # ""
         THEN ret.error = None /\ JSame(ret.result, LastPostAnswer.body)
         ELSE IF JGet(LastPostAnswer.body, "image", "") # ""
         THEN /\ ret.error = None
              /\ ret.result.fields["image_url"]
                   = "data:image/png;base64," \o LastPostAnswer.body.fields["image"]
              /\ \A k \in DOMAIN LastPostAnswer.body.fields \ {"image_url"} :
                   ret.result.fields[k] = LastPostAnswer.body.fields[k]
         ELSE ret.result = JNull /\ ret.error = "No image data in response"

C13_DataUrlSynthesized ==
  /\ GenerateReturned /\ exc = None /\ ret.error = None
  /\ LastPostIsObject
  /\ ~JHas(LastPostAnswer.body, "image_url")
  /\ ret.result.fields["image_url"] = "data:image/png;base64,iVBORw0KGgo="

(***************************************************************************)
(* Properties of the probes                                                *)
(***************************************************************************)
ProbeReturned == pc = "returned" /\ op = "_test_connection"

\* every request to the endpoint fails: connection refused or timed out
Unreachable(gets) == \A i \in DOMAIN gets : gets[i].kind # "response"

\* the base URL a call works with: the gateway's, or in remote mode the configured
\* one when the gateway has none
ResolvedBaseUrl ==
  IF Truthy(base_url) \/ use_local_validation \/ NoEndpointConfigured THEN base_url
  ELSE RStripSlash(config.COLAB_ENDPOINT)

\* C14: in every state the gateway can be in, whatever was called before, a
\* _test_connection call against an endpoint that fails every request returns False
\* and raises nothing, asks for /health only, and it leaves the gateway with the
\* fields it had (base_url looked up from the configuration at most); nothing is kept that makes the
\* connection count as verified: a generate_image call against the same unreachable
\* endpoint is refused without a POST.
C14_UnreachableProbeIsFalse ==
  [][ /\ (pc = "idle" /\ op' = "_test_connection" /\ Unreachable(args'.gets))
        => /\ ret'.value = FALSE
           /\ exc' = None
           /\ base_url' = ResolvedBaseUrl
           /\ use_local_validation' = use_local_validation
           /\ \A i \in DOMAIN sent' : sent'[i].url = base_url' \o "/health"
      /\ (pc = "idle" /\ op' = "generate_image" /\ Unreachable(args'.gets))
        => /\ \A i \in DOMAIN sent' : sent'[i].method = "GET"
           /\ ret'.result = JNull
           /\ ret'.error
                = IF Truthy(ResolvedBaseUrl)
                  THEN "Backend service is currently unavailable. Please try again later."
                  ELSE DisabledMessage ]_vars

C14_RefusedConnectionIsFalse ==
  /\ ProbeReturned
  /\ Unreachable(args.gets)
  /\ Truthy(base_url)
  /\ Len(sent) = 1 /\ sent[1].url = base_url \o "/health"
  /\ ret.value = FALSE

(***************************************************************************)
(* Properties of validate_prompt in local mode                             *)
(***************************************************************************)
\* C15: a validate_prompt call on a gateway in local mode returns the dict
\* validate_prompt_locally returns for the same prompt, with no error, runs the
\* classifier as often as the engine does, sends no request, raises nothing and
\* leaves base_url and use_local_validation as they were.
C15_LocalDelegation ==
  [][ (pc = "idle" /\ op' = "validate_prompt" /\ use_local_validation)
        => /\ ret'.result
                = JObject(validate_prompt_locally(args'.prompt, args'.cls, keyword_order).result)
           /\ ret'.error = None
           /\ exc' = None
           /\ model_calls' = validate_prompt_locally(args'.prompt, args'.cls, keyword_order).model_calls
           /\ sent' = << >>
           /\ base_url' = base_url
           /\ use_local_validation' = use_local_validation ]_vars

C15_LocalResultWithEndpointSet ==
  /\ ValidateReturned
  /\ use_local_validation /\ Truthy(base_url)
  /\ args.prompt = "coastal living room"
  /\ ret.error = None
  /\ ret.result.json = "object"
  /\ ret.result.fields.valid
  /\ ret.result.fields.detected_style = "coastal"
  /\ model_calls = 1
  /\ sent = << >>

(***************************************************************************)
(* Properties of the re-ranking                                            *)
(***************************************************************************)
\* what the re-ranking of raw logits for a prompt gives in a process whose keyword
\* lists have the given order: top label, top confidence, second label, second
\* confidence
TopTwo(r) ==
  << label_map[r.top1_idx], r.top1_conf, label_map[r.top2_idx], r.top2_conf >>

Reranked(logits, prompt, order) == TopTwo(Rerank(logits, Scan(prompt, order)))

\* C16: the top label, top confidence, second label and second confidence of a
\* result are those every run of the re-ranking gives for the same raw logits and
\* the same prompt: a run in this process after whatever calls came before, and a
\* run in a process that lists the keywords of STYLE_KEYWORDS in another order.
C16_RerankDeterministic ==
  (EngineReturned /\ ret.valid) =>
    \A order \in KeywordOrders :
      << ret.detected_style, ret.style_confidence, ret.secondary_style,
         ret.secondary_confidence >> = Reranked(args.cls.logits, args.prompt, order)

C16_SameUnderOtherKeywordOrder ==
  /\ EngineReturned /\ ret.valid
  /\ args.prompt = "rustic den with stone fireplace"
  /\ keyword_order = MaxKeywordOrder
  /\ KeywordsOf("rustic", keyword_order) # KeywordsOf("rustic", 0)
  /\ Scan(args.prompt, keyword_order).keyword[4]
  /\ ret.detected_style = "rustic"

\* the number of GET requests for /health the call on record sent
HealthGets == Cardinality({ i \in DOMAIN sent : sent[i].url = base_url \o "/health" })

Is200(answer) == answer.kind = "response" /\ answer.status = "200"

\* the call on record is a probe that asked for /health once and got a status other
\* than 200
HealthNotOk ==
  /\ pc = "returned" /\ op \in { "_test_connection", "check_health" }
  /\ HealthGets = 1
  /\ args.gets[1].kind = "response" /\ args.gets[1].status # "200"

\* C17: in both probes, _test_connection and check_health, a status of /health other
\* than 200 (404 or any other) is followed by a GET of the root path, and the probe
\* returns True exactly when the root path answers 200; so the two return the same
\* value for the same answers.
C17_BothProbesFallBackToRoot ==
  HealthNotOk =>
    /\ Len(sent) = 2
    /\ sent[2].url = base_url
    /\ ret.value = Is200(args.gets[2])

C17_CheckHealthSkipsRoot ==
  /\ pc = "returned" /\ op = "check_health"
  /\ HealthGets = 1
  /\ args.gets[1].kind = "response" /\ args.gets[1].status = "500"
  /\ Is200(args.gets[2])
  /\ Len(sent) = 1
  /\ ret.value = FALSE

(***************************************************************************)
(* Properties of the endpoint the gateway works with                       *)
(***************************************************************************)
\* the step is a call that needs the endpoint: generate_image, _test_connection, or
\* validate_prompt on a gateway in remote mode
CallsBackend ==
  /\ pc = "idle"
  /\ \/ op' \in { "generate_image", "_test_connection" }
     \/ op' = "validate_prompt" /\ ~use_local_validation

\* C18: a generate_image, _test_connection or remote validate_prompt call that starts
\* with base_url unset while the configuration holds an endpoint takes that endpoint
\* as base_url and goes on to use it: it is not refused as unconfigured and its first
\* request goes there. This is so in local mode as in remote mode.
C18_LazyReResolution ==
  [][ (CallsBackend /\ ~Truthy(base_url) /\ ~NoEndpointConfigured)
        => /\ base_url' = RStripSlash(config.COLAB_ENDPOINT)
           /\ sent' # << >>
           /\ sent'[1].url = base_url' \o "/health"
           /\ op' = "generate_image" => ret'.error # DisabledMessage ]_vars

C18_LocalModeKeepsEndpointUnset ==
  /\ GenerateReturned
  /\ use_local_validation
  /\ ~Truthy(base_url) /\ ~NoEndpointConfigured
  /\ ret.error = DisabledMessage
  /\ sent = << >>

\* the call on record sent requests, and all of them to the endpoint
SentOnlyTo(endpoint) ==
  /\ sent # << >>
  /\ \A i \in DOMAIN sent :
       sent[i].url \in { endpoint \o "/health", endpoint, endpoint \o "/generate" }

\* C19: once connect_model has succeeded with an endpoint, every generate_image call
\* made afterwards through the application's gateway sends its requests, the probe
\* first, to that endpoint, whatever endpoint the gateway had before and whatever was
\* called in between.
C19_ConnectedEndpointIsUsed ==
  (GenerateReturned /\ connected # None) => SentOnlyTo(connected)

C19_GatewayKeepsOldEndpoint ==
  /\ GenerateReturned
  /\ connected = "https://colab-b.example"
  /\ base_url = "https://colab-a.example"
  /\ PostsSent >= 1
  /\ \A i \in DOMAIN sent :
       sent[i].url \in { base_url \o "/health", base_url, base_url \o "/generate" }

(***************************************************************************)
(* Properties of the payload of /generate                                  *)
(***************************************************************************)
\* the payload of the POST the call on record sent first
PostedPayload == sent[CHOOSE i \in DOMAIN sent : sent[i].method = "POST"].payload

\* C20: the payload generate_image posts has the prompt and, of the options, exactly
\* those given a value other than the default: style unless it is "auto" or the
\* parameter default, guidance_scale unless it is 7.5, negative_prompt,
\* num_inference_steps and seed unless they are None; an option given another value,
\* seed 0 among them, is in the payload with that value.
C20_OptionsOnlyWhenNonDefault ==
  (GenerateReturned /\ PostsSent >= 1) =>
    /\ PostedPayload["prompt"] = args.a.prompt
    /\ "style" \in DOMAIN PostedPayload <=> args.a.style \notin { "auto", DefaultStyle }
    /\ "guidance_scale" \in DOMAIN PostedPayload
         <=> args.a.guidance_scale # << DefaultGuidanceScale >>
    /\ "negative_prompt" \in DOMAIN PostedPayload <=> args.a.negative_prompt # None
    /\ "num_inference_steps" \in DOMAIN PostedPayload <=> args.a.num_inference_steps # << >>
    /\ "seed" \in DOMAIN PostedPayload <=> args.a.seed # << >>
    /\ \A k \in DOMAIN PostedPayload \cap { "style", "negative_prompt" } :
         PostedPayload[k] = args.a[k]
    /\ \A k \in DOMAIN PostedPayload \cap { "guidance_scale", "num_inference_steps", "seed" } :
         PostedPayload[k] = args.a[k][1]

C20_DefaultsSentSeedZeroDropped ==
  /\ GenerateReturned /\ PostsSent >= 1
  /\ args.a.style = DefaultStyle
  /\ args.a.guidance_scale = << DefaultGuidanceScale >>
  /\ args.a.seed = << 0 >>
  /\ args.a.negative_prompt = None /\ args.a.num_inference_steps = << >>
  /\ DOMAIN PostedPayload = { "prompt", "style", "guidance_scale" }
  /\ PostedPayload["style"] = "modern" /\ PostedPayload["guidance_scale"] = 75

(***************************************************************************)
(* Properties of the keyword step, the fallback reason and the ranking     *)
(***************************************************************************)
\* the Knowledge Base entries of a label: those whose name, lower-cased, is the name
\* of the label with "_" written as a space
EntriesOf(label) == { k \in DOMAIN STYLE_HINTS : Lower(k) = Replace(label, "_", " ") }

\* some keyword of the label's Knowledge Base entries is in the text, whatever its case
KnowledgeBaseKeywordIn(label, lower_prompt) ==
  \E k \in EntriesOf(label), c \in Range(Categories) :
    \E n \in DOMAIN STYLE_HINTS[k][c] : Contains(Lower(STYLE_HINTS[k][c][n]), lower_prompt)

\* for each prompt of the model, the labels with a Knowledge Base keyword in it
KeywordLabelsTable ==
  { << p, { i \in DOMAIN label_map :
              KnowledgeBaseKeywordIn(label_map[i], Lower(sanitize_prompt(p))) } >> :
      p \in Prompts }

KeywordLabels(p) == (CHOOSE t \in KeywordLabelsTable : t[1] = p)[2]

\* what the boost loop and the penalty add to the raw logit of label i, less the
\* explicit-mention boost and the rustic penalty: the share of the keyword step
KeywordStepRaise(i) ==
  AdjustLogits(args.cls.logits, Scan(args.prompt, keyword_order))[i] - args.cls.logits[i]
    - (IF ExplicitMention(label_map[i], Scan(args.prompt, keyword_order).lower_prompt)
       THEN LABEL_EXPLICIT_BOOST ELSE 0)
    + (IF label_map[i] = "rustic" /\ Scan(args.prompt, keyword_order).rustic_unindicated
       THEN RUSTIC_PENALTY ELSE 0)

\* the call on record reached the classifier and got logits
Classified ==
  /\ EngineReturned /\ ~args.cls.raises
  /\ Scan(args.prompt, keyword_order).related

\* C21: for each of the seven labels, mid-century_modern included, the keyword step
\* raises the label's score by exactly 0.5 when some Knowledge Base keyword of the
\* label occurs in the prompt as a case-insensitive substring, however many occur,
\* and by nothing otherwise.
C21_KeywordBoostOncePerLabel ==
  Classified =>
    \A i \in DOMAIN label_map :
      KeywordStepRaise(i) = IF i \in KeywordLabels(args.prompt) THEN KEYWORD_BOOST ELSE 0

C21_MidCenturyKeywordNotBoosted ==
  /\ Classified
  /\ args.prompt = "Eames lounge chair in a great room"
  /\ 2 \in KeywordLabels(args.prompt)
  /\ KeywordStepRaise(2) = 0
  /\ ret.valid /\ ret.detected_style # "mid-century_modern"

\* the label the ranking and the override of the call on record end with
Winner == label_map[Rerank(args.cls.logits, Scan(args.prompt, keyword_order)).top1_idx]

\* the label has no Knowledge Base entry: its title-cased name is no key of STYLE_HINTS
HasNoEntry(label) == Title(label) \notin DOMAIN STYLE_HINTS

\* C22: when the winning label has no Knowledge Base entry, validate_prompt_locally
\* still returns a result with valid = true, and its style_reasons is the one reason
\* "style not found in hint database".
C22_FallbackReasonReturned ==
  (Classified /\ HasNoEntry(Winner)) =>
    /\ ret.valid
    /\ ret.style_reasons = << "style not found in hint database" >>

C22_WinnerWithoutEntryRejected ==
  /\ Classified /\ HasNoEntry(Winner)
  /\ Winner = "mid-century_modern"
  /\ ret.valid = FALSE
  /\ IsValidationError(ret.message)
  /\ ret.style_reasons = << >>
  /\ model_calls = 1

\* the labels the allow-list filter of line 211 admits
AdmittedLabels == { label_map[allowed_indices[n]] : n \in DOMAIN allowed_indices }

\* C23: in every result of validate_prompt_locally with valid = true, detected_style
\* and secondary_style are labels the allow-list filter admits, for every logits
\* vector and prompt, prompts that trigger the explicit-mention override included.
C23_StylesAreAdmitted ==
  (EngineReturned /\ ret.valid) =>
    /\ ret.detected_style \in AdmittedLabels
    /\ ret.secondary_style \in AdmittedLabels

C23_OverriddenWinnerAdmitted ==
  /\ Classified /\ ret.valid
  /\ Rerank(args.cls.logits, Scan(args.prompt, keyword_order)).overridden
  /\ ret.detected_style = "coastal"
  /\ ret.detected_style \in AdmittedLabels
  /\ ret.secondary_style \in AdmittedLabels

\* C24: under every interleaving of requests that run _ensure_base_url and init_app
\* and of /connect-model requests that set the configured endpoint, base_url, once a
\* reader has seen it set, is set whenever it is read.
C24_EndpointStaysSet == observed # None => Truthy(base_url)

C24_UnsetAfterSeenSet ==
  /\ observed = "https://colab-b.example"
  /\ ~Truthy(base_url)
  /\ config.COLAB_ENDPOINT = "https://colab-b.example"
  /\ \A t \in 1..MaxThreads : threads[t].at = "idle"

(***************************************************************************)
(* Properties of the order of probe, validation and generation             *)
(***************************************************************************)
UnavailableMessage == "Backend service is currently unavailable. Please try again later."

\* the number of GET requests the call on record sent
GetsSent == Cardinality({ i \in DOMAIN sent : sent[i].method = "GET" })

\* the probe of the call on record, the one its last GET belongs to, failed: the GET
\* raised or timed out, or it was the GET of the root path and got no 200
LastProbeFailed ==
  ~(AnswerAt(args.gets, GetsSent).kind = "response"
      /\ AnswerAt(args.gets, GetsSent).status = "200")

\* C25: a generate_image call with an endpoint configured sends its POSTs to the
\* generation path only after a connectivity probe has completed; when the probe
\* fails it sends no POST and returns the reason "Backend service is currently
\* unavailable ...", which is neither the reason for a missing endpoint nor
\* "Maximum retry attempts reached".
C25_ProbeBeforePost ==
  (GenerateReturned /\ Truthy(base_url)) =>
    /\ GetsSent >= 1
    /\ \A i \in 1..GetsSent : sent[i].method = "GET" /\ StartsAt(sent[i].url, 1, base_url)
    /\ \A i \in (GetsSent + 1)..Len(sent) :
         sent[i].method = "POST" /\ sent[i].url = base_url \o "/generate"
    /\ LastProbeFailed =>
         /\ PostsSent = 0
         /\ ret.result = JNull
         /\ ret.error = UnavailableMessage
         /\ exc = None
    /\ UnavailableMessage
         \notin { DisabledMessage, "Backend URL not configured", "Maximum retry attempts reached" }

C25_FailedProbeSendsNoPost ==
  /\ GenerateReturned /\ Truthy(base_url)
  /\ args.gets[1] = Response("500", FALSE, JNull)
  /\ args.gets[2] = Response("404", FALSE, JNull)
  /\ Len(sent) = 2 /\ PostsSent = 0
  /\ sent[2].url = base_url
  /\ ret.error = UnavailableMessage

RouteReturned == pc = "returned" /\ op = "routes.generate_image"

\* the gateway calls of the request on record that are calls of generate_image
GenerationCalls == { i \in DOMAIN ret.calls : ret.calls[i].name = "generate_image" }

\* the call returned, without error, a result whose valid is true
ReturnedValid(call) ==
  /\ call.exc = None
  /\ call.error = None
  /\ call.result.json = "object"
  /\ JGet(call.result, "valid", None) = TRUE

\* C26: in the generate-image request, the gateway's generate_image is called only
\* after validate_prompt has returned, for the same prompt, a result without error
\* whose valid is true; after an invalid or failed validation it is not called.
C26_GenerateOnlyAfterValid ==
  RouteReturned =>
    /\ \A i \in GenerationCalls :
         /\ i = 2
         /\ ret.calls[1].name = "validate_prompt"
         /\ ret.calls[1].prompt = ret.calls[i].prompt
         /\ ReturnedValid(ret.calls[1])
    /\ (ret.calls # << >> /\ ~ReturnedValid(ret.calls[1])) =>
         /\ GenerationCalls = {}
         /\ \A n \in DOMAIN sent : sent[n].url # base_url \o "/generate"

C26_InvalidPromptNotGenerated ==
  /\ RouteReturned
  /\ args.req.prompt = "garden shed" /\ args.req.session_found
  /\ use_local_validation
  /\ Len(ret.calls) = 1
  /\ ret.calls[1].error = None /\ ret.calls[1].result.fields["valid"] = FALSE
  /\ ret.status = "400"

(***************************************************************************)
(* Properties of the invalid-prompt cache                                  *)
(***************************************************************************)
LookupReturned == pc = "returned" /\ op = "is_recently_invalid"

\* the timestamp the cache holds for a user and prompt, Never when it holds none
CachedAt(user_id, prompt) ==
  IF prompt \in DOMAIN EntriesFor(recent_invalid_prompts, user_id)
  THEN recent_invalid_prompts[user_id][prompt] ELSE Never

\* C27: is_recently_invalid(u, p) is true exactly when mark_invalid(u, p) was called
\* for this user and this prompt and the latest such call was less than 300 seconds
\* ago (false at exactly 300 seconds); marks for another user or prompt do not count,
\* and a lookup leaves the cache as it is: it holds the time of the latest mark of
\* every user and prompt marked, expired or not.
C27_RecentExactlyWithinTtl ==
  /\ LookupReturned =>
       ret.value = ( /\ marked[<< args.user_id, args.prompt >>] # Never
                     /\ clock - marked[<< args.user_id, args.prompt >>] < 300 )
  /\ \A k \in Users \X CachePrompts : CachedAt(k[1], k[2]) = marked[k]

C27_ExpiredAtExactlyTtl ==
  /\ LookupReturned
  /\ marked[<< args.user_id, args.prompt >>] # Never
  /\ clock - marked[<< args.user_id, args.prompt >>] = 300
  /\ ret.value = FALSE
  /\ CachedAt(args.user_id, args.prompt) = marked[<< args.user_id, args.prompt >>]
  /\ \E k \in Users \X CachePrompts : k # << args.user_id, args.prompt >> /\ clock - marked[k] < 300

(***************************************************************************)
(* Properties of the sleeps of _send_request                               *)
(***************************************************************************)
\* C28: _send_request sleeps only between two attempts: a call takes at most one
\* sleep less than it sends requests, so no sleep follows its last attempt.
C28_SleepsOnlyBetweenAttempts ==
  DispatchReturned =>
    /\ PostsSent = 0 => sleeps = << >>
    /\ PostsSent >= 1 => Len(sleeps) <= PostsSent - 1

C28_SleepAfterLastAttempt ==
  /\ DispatchReturned /\ args.max_retries = 3
  /\ \A i \in 1..3 : args.posts[i].kind = "response" /\ args.posts[i].status = "429"
  /\ PostsSent = 3
  /\ sleeps = << DefaultRetryDelay, 2 * DefaultRetryDelay, 3 * DefaultRetryDelay >>
  /\ ret.error = "Maximum retry attempts reached"

(***************************************************************************)
(* Properties of the two styles of a result                                *)
(***************************************************************************)
\* C29: in every result of validate_prompt_locally with valid = true, secondary_style
\* is another label than detected_style, also when the explicit-mention override has
\* replaced the rank-1 label.
C29_SecondaryDiffers ==
  (EngineReturned /\ ret.valid) => ret.secondary_style # ret.detected_style

C29_OverrideRepeatsRunnerUp ==
  /\ Classified /\ ret.valid
  /\ Rerank(args.cls.logits, Scan(args.prompt, keyword_order)).overridden
  /\ Rerank(args.cls.logits, Scan(args.prompt, keyword_order)).ranked[2]
       = Rerank(args.cls.logits, Scan(args.prompt, keyword_order)).top1_idx
  /\ ret.detected_style = ret.secondary_style
  /\ ret.style_confidence = ret.secondary_confidence

\* the label is the detected_style of a valid = true result for some prompt and some
\* logits vector, in this process
Detectable(label) ==
  \E p \in Prompts, cls \in ClassifierOutcomes :
    /\ validate_prompt_locally(p, cls, keyword_order).result.valid
    /\ validate_prompt_locally(p, cls, keyword_order).result.detected_style = label

\* C30: each of the seven labels of label_map is the detected_style of some result:
\* for every label there are raw logits and an in-domain prompt for which
\* validate_prompt_locally returns valid = true with that label.
C30_EveryLabelDetectable == \A i \in DOMAIN label_map : Detectable(label_map[i])

C30_MidCenturyModernNeverDetected ==
  /\ Classified
  /\ args.cls.logits[2] = PeakLogit
  /\ args.prompt = "mid-century modern living room"
  /\ ~ret.valid
  /\ ret.detected_style = "unknown"
=============================================================================
